---- MODULE Spec2Model ----
(***************************************************************************)
(* NDStorage / NDTiff: a model of the RAM sink (NDRAMDataset), of the      *)
(* single-file TIFF writer and reader, of the index record codec, of the   *)
(* writable on-disk dataset and of the live-read dataset.                  *)
(***************************************************************************)
EXTENDS Integers, Sequences, FiniteSets, TLC

(***************************************************************************)
(* Bounds of the model                                                     *)
(***************************************************************************)
\* number of put_image calls explored on one dataset
MaxPuts == 2

(***************************************************************************)
(* Axis coordinates.  An axis value is a Python int or a Python str; a str *)
(* is named by its rank n in lexicographic order.                          *)
(***************************************************************************)
IntVal(i) == [kind |-> "int", n |-> i]
StrVal(j) == [kind |-> "str", n |-> j]

AxisNames == {"channel", "time"}
\* the values the model gives each axis: both kinds on the channel axis
AxisValues(a) ==
    IF a = "channel" THEN {IntVal(0), StrVal(0), StrVal(1)}
    ELSE {IntVal(0), IntVal(1)}
Pairs == {av \in AxisNames \X {IntVal(0), IntVal(1), StrVal(0), StrVal(1)} :
             av[2] \in AxisValues(av[1])}

\* a coordinates dict, in the caller's insertion order: pairs with distinct names
\* (channel before time, and one dict that names time first)
CoordSeqs ==
    {<<>>} \cup {<<p>> : p \in Pairs}
           \cup {<<pq[1], pq[2]>> : pq \in {x \in Pairs \X Pairs :
                                               x[1][1] = "channel" /\ x[2][1] = "time"}}
           \cup {<<<<"time", IntVal(0)>>, <<"channel", StrVal(1)>>>>}

\* frozenset(coordinates.items())
Key(coords) == {coords[i] : i \in DOMAIN coords}

AllKeys == {Key(c) : c \in CoordSeqs}

\* the queries the model makes: the arguments that are not None, as a key
QueryKeys ==
    {{}, {<<"channel", IntVal(0)>>}, {<<"time", IntVal(0)>>},
     {<<"channel", StrVal(1)>>, <<"time", IntVal(0)>>}}

EmptyFn == [x \in {} |-> 0]

(***************************************************************************)
(* Pixels and metadata.  A pixel buffer is a numpy array of a dtype, a     *)
(* shape and a content; a metadata dict has a number of keys (len(dict))   *)
(* and a length in bytes of its JSON text.                                 *)
(***************************************************************************)
Pix(dtype, h, w, val) == [dtype |-> dtype, h |-> h, w |-> w, val |-> val]
NoPix == Pix("none", 0, 0, 0)
Md(id, nkeys, nbytes) == [id |-> id, nkeys |-> nkeys, nbytes |-> nbytes]
NoMd == Md(0, 0, 0)

RamImages == {[pix |-> Pix("uint16", 1, 1, 1), md |-> Md(1, 1, 20)],
              [pix |-> Pix("uint16", 1, 1, 2), md |-> Md(2, 1, 21)]}

VARIABLES
    kind,                 \* which class this is: "ram", "legacy", "disk", "cap",
                          \* "live"; "index" for the index codec alone, "file"
                          \* for one file with its writer and reader, "tiles"
                          \* for a RAM dataset of the tiles of a grid,
                          \* "pyramid" for a NDTiffPyramidDataset, "ndtiff"
                          \* for the NDTiffDataset of ndtiff_dataset.py
    images,               \* NDRAMDataset.images: key -> pixels
    image_metadata,       \* NDRAMDataset.image_metadata: key -> metadata
    axes,                 \* NDStorageAPI.axes: axis name -> SortedSet of values
    axes_keys,            \* the insertion order of the keys of the axes dict
    axes_types,           \* NDStorageAPI.axes_types: axis name -> "int" | "str"
    string_axes_values,   \* NDStorageBase._string_axes_values: axis -> list
    new_image_event,      \* NDStorageBase._new_image_event
    finished_event,       \* NDRAMDataset._finished_event
    legacy_finished_event,\* ndtiff NDRAMStorage._finished_event
    closed,               \* close() has been called
    writable,             \* the dataset was created for writing
    index,                \* NDTiffDataset.index: key -> index entry
    readers,              \* the file names that have an open reader
    write_pending,        \* key -> image accepted, not yet in the index
    current_writer,       \* the active SingleNDTiffWriter, or NoWriter
    file_index,           \* number used to name the next file
    files,                \* the .tif files of the directory: name -> file
    index_file,           \* the NDTiff.index file
    wpc,                  \* where the thread inside put_image is
    job,                  \* the arguments and locals of that put_image
    ret,                  \* what the last call returned or raised
    written,              \* key -> what the last put_image that returned stored
    appended,             \* the images whose records were appended, in order
    put_failed,           \* some put_image raised
    put_dup,              \* some put_image was given coordinates used before
    nputs,                \* put_image calls made so far
    byteorder,            \* sys.byteorder of the host
    apc,                  \* where the thread inside await_new_image is
    index_data,           \* the bytes handed to read_ndtiff_index
    encoded,              \* the entries whose whole records are in index_data
    res_levels,           \* NDTiffPyramidDataset.res_levels: the dict, as its
                          \* items in insertion order
    opc,                  \* where the observer thread is in its loop
    seen                  \* the images dict as the observer last found it

baseVars == <<axes, axes_keys, axes_types, string_axes_values, new_image_event>>
ramVars == <<images, image_metadata, finished_event, legacy_finished_event>>
diskVars == <<writable, index, readers, write_pending, current_writer, file_index,
              files, index_file, wpc, job>>
ghostVars == <<written, appended, put_failed, put_dup, nputs>>
auxVars == <<byteorder, apc, index_data, encoded, res_levels, opc, seen>>
vars == <<kind, baseVars, ramVars, diskVars, closed, ret, ghostVars, auxVars>>

Ret(op, status, val, key, pix, md) ==
    [op |-> op, status |-> status, val |-> val, key |-> key, pix |-> pix, md |-> md]

(***************************************************************************)
(* NDStorageBase                                                           *)
(***************************************************************************)
\* a faulty first loop, which binds an axis to the kind of the latest value
\* (the axis-kind property must tell it from the loop of _update_axes)
UpdateAxesTypesRebind(coords, i, types) ==
    [ok |-> TRUE,
     types |-> [a \in DOMAIN types \cup {coords[j][1] : j \in DOMAIN coords} |->
                   IF \E j \in DOMAIN coords : coords[j][1] = a
                   THEN coords[CHOOSE j \in DOMAIN coords : coords[j][1] = a][2].kind
                   ELSE types[a]]]

\* first loop of _update_axes: bind each new axis to the kind of its value and
\* raise on a value of the other kind; the bindings made before the raise stay
RECURSIVE UpdateAxesTypes(_, _, _)
UpdateAxesTypes(coords, i, types) ==
    IF i > Len(coords) THEN [ok |-> TRUE, types |-> types]
    ELSE LET a == coords[i][1]
             v == coords[i][2]
         IN IF a \notin DOMAIN types
            THEN IF v.kind \in {"int", "str"}
                 THEN UpdateAxesTypes(coords, i + 1, types @@ (a :> v.kind))
                 ELSE [ok |-> FALSE, types |-> types]
            ELSE IF v.kind # types[a]
                 THEN [ok |-> FALSE, types |-> types]
                 ELSE UpdateAxesTypes(coords, i + 1, types)

InSeq(x, s) == \E i \in DOMAIN s : s[i] = x

\* a faulty SortedSet.add, which puts a new value last (the value-order
\* property must tell it from SortedSet.add)
SortedSetAppend(s, v) == IF InSeq(v, s) THEN s ELSE Append(s, v)

\* SortedSet.add: a value already held is not added again; a new value goes
\* before the first greater one (ints by value, strs lexicographically).  The
\* values of one SortedSet are of one kind.
SortedSetAdd(s, v) ==
    IF InSeq(v, s) THEN s
    ELSE LET k == Cardinality({i \in DOMAIN s : s[i].n < v.n})
         IN SubSeq(s, 1, k) \o <<v>> \o SubSeq(s, k + 1, Len(s))

\* second loop of _update_axes: a new key of axes gets an empty SortedSet and
\* (again) its type; the value is added to the set
RECURSIVE UpdateAxesSeen(_, _, _)
UpdateAxesSeen(coords, i, st) ==
    IF i > Len(coords) THEN st
    ELSE LET a == coords[i][1]
             v == coords[i][2]
             fresh == a \notin DOMAIN st.axes
             ax == IF fresh THEN st.axes @@ (a :> <<>>) ELSE st.axes
         IN UpdateAxesSeen(coords, i + 1,
                [axes |-> [ax EXCEPT ![a] = SortedSetAdd(@, v)],
                 keys |-> IF fresh THEN Append(st.keys, a) ELSE st.keys,
                 types |-> IF fresh
                           THEN [x \in DOMAIN st.types \cup {a} |->
                                    IF x = a THEN v.kind ELSE st.types[x]]
                           ELSE st.types])

\* a faulty second loop, which puts a new string first in the list (the index
\* translation property must tell it from the loop of _parse_string_axes_values)
AppendStringValuesFront(coords, i, sav) ==
    [a \in DOMAIN sav |->
        IF \E j \in DOMAIN coords : coords[j][1] = a /\ ~InSeq(coords[j][2], sav[a])
        THEN <<coords[CHOOSE j \in DOMAIN coords : coords[j][1] = a][2]>> \o sav[a]
        ELSE sav[a]]

\* _parse_string_axes_values, second loop, for one image's coordinates
RECURSIVE AppendStringValues(_, _, _)
AppendStringValues(coords, i, sav) ==
    IF i > Len(coords) THEN sav
    ELSE LET a == coords[i][1]
             v == coords[i][2]
         IN IF a \in DOMAIN sav /\ ~InSeq(v, sav[a])
            THEN AppendStringValues(coords, i + 1, [sav EXCEPT ![a] = Append(@, v)])
            ELSE AppendStringValues(coords, i + 1, sav)

\* _parse_string_axes_values: every axis of type str gets a list, then the
\* values of the coordinates are appended to the lists of their axes
ParseStringAxesValues(coords, types, sav) ==
    LET strAxes == {a \in DOMAIN types : types[a] = "str"}
        withLists == [a \in DOMAIN sav \cup strAxes |->
                         IF a \in DOMAIN sav THEN sav[a] ELSE <<>>]
    IN AppendStringValues(coords, 1, withLists)

\* _update_axes as a function of the dataset's axis tables
UpdateAxes(coords, ax, keys, types, sav) ==
    LET t == UpdateAxesTypes(coords, 1, types)
        s == UpdateAxesSeen(coords, 1, [axes |-> ax, keys |-> keys, types |-> t.types])
    IN IF ~t.ok
       THEN [ok |-> FALSE, axes |-> ax, keys |-> keys, types |-> t.types, sav |-> sav]
       ELSE [ok |-> TRUE, axes |-> s.axes, keys |-> s.keys, types |-> s.types,
             sav |-> ParseStringAxesValues(coords, s.types, sav)]

\* _get_axis_order_key: the precedence of an axis name, 3 for an unknown name
AxisOrderKey(a) ==
    CASE a = "row" -> 7
      [] a = "column" -> 6
      [] a = "position" -> 5
      [] a = "time" -> 4
      [] a = "channel" -> 3
      [] a = "z" -> 2
      [] OTHER -> 3

\* dict(sorted(axes.items(), key=_get_axis_order_key, reverse=True)): the keys
\* by descending precedence, keys of equal precedence in their former order
SortAxes(keys) ==
    LET sel(r) == SelectSeq(keys, LAMBDA a : AxisOrderKey(a) = r)
    IN sel(7) \o sel(6) \o sel(5) \o sel(4) \o sel(3) \o sel(2)

\* the order in which _consolidate_axes builds axis_positions
ConsolidateOrder == <<"channel", "z", "position", "time", "row", "column">>

\* the pairs of a query (its arguments that are not None), in that order
QuerySeq(q) ==
    LET F[i \in 0..Len(ConsolidateOrder)] ==
            IF i = 0 THEN <<>>
            ELSE IF \E p \in q : p[1] = ConsolidateOrder[i]
                 THEN Append(F[i - 1], CHOOSE p \in q : p[1] = ConsolidateOrder[i])
                 ELSE F[i - 1]
    IN F[Len(ConsolidateOrder)]

\* list[i] in Python: a negative i counts from the end
PyIndexOk(list, i) == -Len(list) <= i /\ i < Len(list)
PyIndex(list, i) == IF i >= 0 THEN list[i + 1] ELSE list[Len(list) + i + 1]

\* _consolidate_axes: an int given on a str axis is replaced by the string at
\* that index; looking up an axis with no type, or a list that is missing, is a
\* KeyError, an index past the list an IndexError
RECURSIVE ConsolidateFrom(_, _, _, _, _)
ConsolidateFrom(qs, i, types, sav, acc) ==
    IF i > Len(qs) THEN [status |-> "ok", key |-> acc]
    ELSE LET a == qs[i][1]
             v == qs[i][2]
         IN IF a \notin DOMAIN types THEN [status |-> "KeyError", key |-> {}]
            ELSE IF types[a] = "str" /\ v.kind = "int"
            THEN IF a \notin DOMAIN sav THEN [status |-> "KeyError", key |-> {}]
                 ELSE IF ~PyIndexOk(sav[a], v.n)
                 THEN [status |-> "IndexError", key |-> {}]
                 ELSE ConsolidateFrom(qs, i + 1, types, sav,
                                      acc \cup {<<a, PyIndex(sav[a], v.n)>>})
            ELSE ConsolidateFrom(qs, i + 1, types, sav, acc \cup {<<a, v>>})

ConsolidateAxes(q, types, sav) == ConsolidateFrom(QuerySeq(q), 1, types, sav, {})

(***************************************************************************)
(* NDRAMDataset                                                            *)
(***************************************************************************)
\* has_image
RamHasImage(q) ==
    LET c == ConsolidateAxes(q, axes_types, string_axes_values)
    IN IF c.status # "ok" THEN Ret("has_image", c.status, "raise", q, NoPix, NoMd)
       ELSE Ret("has_image", "ok",
                IF c.key \in DOMAIN images THEN "True" ELSE "False", q, NoPix, NoMd)

\* read_image
RamReadImage(q) ==
    LET c == ConsolidateAxes(q, axes_types, string_axes_values)
    IN IF c.status # "ok" THEN Ret("read_image", c.status, "raise", q, NoPix, NoMd)
       ELSE IF c.key \notin DOMAIN images
       THEN Ret("read_image", "Exception", "raise", q, NoPix, NoMd)
       ELSE Ret("read_image", "ok", "image", q, images[c.key], NoMd)

\* read_metadata
RamReadMetadata(q) ==
    LET c == ConsolidateAxes(q, axes_types, string_axes_values)
    IN IF c.status # "ok" THEN Ret("read_metadata", c.status, "raise", q, NoPix, NoMd)
       ELSE IF c.key \notin DOMAIN images
       THEN Ret("read_metadata", "Exception", "raise", q, NoPix, NoMd)
       ELSE Ret("read_metadata", "ok", "metadata", q, NoPix, image_metadata[c.key])

Put(f, k, v) == [x \in DOMAIN f \cup {k} |-> IF x = k THEN v ELSE f[x]]

\* put_image: store, update the axes, signal new_image
RamPutImage(coords, im) ==
    /\ kind \in {"ram", "tiles"}
    /\ nputs < MaxPuts
    /\ LET key == Key(coords)
           u == UpdateAxes(coords, axes, axes_keys, axes_types, string_axes_values)
       IN /\ images' = Put(images, key, im.pix)
          /\ image_metadata' = Put(image_metadata, key, im.md)
          /\ axes' = u.axes
          /\ axes_keys' = u.keys
          /\ axes_types' = u.types
          /\ string_axes_values' = u.sav
          /\ new_image_event' = IF u.ok THEN TRUE ELSE new_image_event
          /\ ret' = Ret("put_image", IF u.ok THEN "ok" ELSE "RuntimeError",
                        IF u.ok THEN "None" ELSE "raise", key, im.pix, im.md)
          /\ written' = IF u.ok THEN Put(written, key, im) ELSE written
    /\ nputs' = nputs + 1
    /\ UNCHANGED <<diskVars, kind, auxVars, finished_event, legacy_finished_event, closed,
                   appended, put_failed, put_dup>>

\* finish
RamFinish ==
    /\ kind = "ram"
    /\ finished_event' = TRUE
    /\ ret' = Ret("finish", "ok", "None", {}, NoPix, NoMd)
    /\ UNCHANGED <<diskVars, kind, auxVars, baseVars, images, image_metadata, legacy_finished_event,
                   closed, ghostVars>>

\* is_finished
RamIsFinished ==
    /\ kind = "ram"
    /\ ret' = Ret("is_finished", "ok", IF finished_event THEN "True" ELSE "False",
                  {}, NoPix, NoMd)
    /\ UNCHANGED <<diskVars, kind, auxVars, baseVars, ramVars, closed, ghostVars>>

\* block_until_finished(timeout): Event.wait returns the flag when it is set or
\* when the timeout passes; without a timeout it returns only once it is set
RamBlockUntilFinished(timeout) ==
    /\ kind = "ram"
    /\ timeout \/ finished_event
    /\ ret' = Ret(IF timeout THEN "block_until_finished(timeout)"
                  ELSE "block_until_finished",
                  "ok", IF finished_event THEN "True" ELSE "False", {}, NoPix, NoMd)
    /\ UNCHANGED <<diskVars, kind, auxVars, baseVars, ramVars, closed, ghostVars>>

\* close
RamClose ==
    /\ kind = "ram"
    /\ ~closed
    /\ images' = EmptyFn
    /\ image_metadata' = EmptyFn
    /\ axes' = EmptyFn
    /\ axes_keys' = <<>>
    /\ closed' = TRUE
    /\ written' = EmptyFn
    /\ ret' = Ret("close", "ok", "None", {}, NoPix, NoMd)
    /\ UNCHANGED <<diskVars, kind, auxVars, axes_types, string_axes_values, new_image_event,
                   finished_event, legacy_finished_event, nputs,
                   appended, put_failed, put_dup>>

\* one query of a RAM dataset; a query changes nothing but what it returns
RamQuery(q) ==
    /\ kind = "ram"
    /\ ret' \in {RamHasImage(q), RamReadImage(q), RamReadMetadata(q)}
    /\ UNCHANGED <<diskVars, kind, auxVars, baseVars, ramVars, closed, ghostVars>>

(***************************************************************************)
(* ndtiff NDRAMStorage: the older RAM sink                                 *)
(***************************************************************************)
\* finish
LegacyFinish ==
    /\ kind = "legacy"
    /\ legacy_finished_event' = TRUE
    /\ ret' = Ret("legacy.finish", "ok", "None", {}, NoPix, NoMd)
    /\ UNCHANGED <<diskVars, kind, auxVars, baseVars, images, image_metadata, finished_event,
                   closed, ghostVars>>

\* block_until_finished(timeout): waits, and returns nothing
LegacyBlockUntilFinished(timeout) ==
    /\ kind = "legacy"
    /\ timeout \/ legacy_finished_event
    /\ ret' = Ret(IF timeout THEN "legacy.block_until_finished(timeout)"
                  ELSE "legacy.block_until_finished",
                  "ok", "None", {}, NoPix, NoMd)
    /\ UNCHANGED <<diskVars, kind, auxVars, baseVars, ramVars, closed, ghostVars>>

\* is_finished
LegacyIsFinished ==
    /\ kind = "legacy"
    /\ ret' = Ret("legacy.is_finished", "ok",
                  IF legacy_finished_event THEN "True" ELSE "False", {}, NoPix, NoMd)
    /\ UNCHANGED <<diskVars, kind, auxVars, baseVars, ramVars, closed, ghostVars>>

(***************************************************************************)
(* File offsets.  An offset can reach 4 GiB, so it is kept as a count g of  *)
(* whole GiB and a remainder b, 0 <= b < BYTES_PER_GIG.                    *)
(***************************************************************************)
BYTES_PER_GIG == 1073741824
ENTRIES_PER_IFD == 13
\* pixel types of an index entry
SIXTEEN_BIT == 1
EIGHT_BIT == 0

Off(n) == [g |-> n \div BYTES_PER_GIG, b |-> n % BYTES_PER_GIG]
OffAdd(x, y) ==
    [g |-> x.g + y.g + ((x.b + y.b) \div BYTES_PER_GIG),
     b |-> (x.b + y.b) % BYTES_PER_GIG]
OffPlus(x, n) == OffAdd(x, Off(n))
OffLt(x, y) == x.g < y.g \/ (x.g = y.g /\ x.b < y.b)
OffLe(x, y) == x = y \/ OffLt(x, y)
OffOdd(x) == x.b % 2 = 1
OffMax(x, y) == IF OffLt(x, y) THEN y ELSE x
\* 4 * BYTES_PER_GIG
MAX_FILE_SIZE == [g |-> 4, b |-> 0]
\* what struct's format I accepts: 0 <= x < 2^32
FitsUint32(x) == 0 <= x.g /\ x.g < 4

(***************************************************************************)
(* Files.  A file is its length, the writes made to it in order (offset,   *)
(* length and content of each), the position of the writer's handle and    *)
(* whether that handle is closed.                                          *)
(***************************************************************************)
Extent(off, len, body) == [off |-> off, len |-> len, body |-> body]
Overlap(e, f) == OffLt(e.off, OffAdd(f.off, f.len)) /\ OffLt(f.off, OffAdd(e.off, e.len))

\* a faulty file.write, which moves the position and stores nothing (the
\* recoverable-prefix property must tell it from file.write)
FileWriteLost(f, len, body) ==
    [f EXCEPT !.pos = OffAdd(f.pos, len), !.length = OffMax(@, OffAdd(f.pos, len))]

\* file.write(buffer) at the handle's position
FileWrite(f, len, body) ==
    [f EXCEPT !.data = Append(@, Extent(f.pos, len, body)),
              !.pos = OffAdd(f.pos, len),
              !.length = OffMax(@, OffAdd(f.pos, len))]

\* the bytes of [start, start + len): the content of the last write that
\* covers exactly this range while no later write touched it; anything else
\* reads as bytes that are no pixel buffer and no JSON text
Garbage == [tag |-> "garbage", id |-> 0, n |-> 0]
FileRead(f, start, len) ==
    LET hits == {i \in DOMAIN f.data :
                    /\ f.data[i].off = start
                    /\ f.data[i].len = len
                    /\ \A j \in DOMAIN f.data : j > i => ~Overlap(f.data[j], f.data[i])}
    IN IF hits # {} /\ OffLe(OffAdd(start, len), f.length)
       THEN f.data[CHOOSE i \in hits : TRUE].body
       ELSE Garbage

\* json.dumps(metadata).encode('utf-8') and json.loads
\* (the text of a dict stands for the dict; its length is the length read)
Dumps(md) == [tag |-> "json", id |-> md.id, n |-> md.nkeys]
Loads(body, nbytes) == Md(body.id, body.n, nbytes)
PixelBytes(pixels) == [tag |-> "pixels", id |-> pixels.val, n |-> 0]

(***************************************************************************)
(* NDTiffIndexEntry and its byte form                                      *)
(***************************************************************************)
NDTiffIndexEntry(axes_key, pixel_type, pix_offset, width, height, md_offset, md_length, filename) ==
    [axes_key |-> axes_key, pix_offset |-> pix_offset, image_width |-> width,
     image_height |-> height, metadata_length |-> md_length,
     metadata_offset |-> md_offset, pixel_type |-> pixel_type,
     pixel_compression |-> 0, metadata_compression |-> 0, filename |-> filename]

\* an axes key held as the items of a dict, or as the bound method dict.items
\* that was never called
Items(key) == [called |-> TRUE, axes |-> key]
ItemsMethod(key) == [called |-> FALSE, axes |-> key]

\* as_byte_buffer: the JSON text of the axes, the file name, eight uint32
as_byte_buffer(e) ==
    [axes_json |-> e.axes_key.axes, filename |-> e.filename,
     pixel_offset |-> e.pix_offset, image_width |-> e.image_width,
     image_height |-> e.image_height, pixel_type |-> e.pixel_type,
     pixel_compression |-> e.pixel_compression,
     metadata_offset |-> e.metadata_offset, metadata_length |-> e.metadata_length,
     metadata_compression |-> e.metadata_compression]

\* a faulty unpack_single_index_entry, which takes the height for the width
\* (the round-trip property must tell it from unpack_single_index_entry)
unpack_swapped(rec) ==
    [axes |-> rec.axes_json,
     entry |-> NDTiffIndexEntry(ItemsMethod(rec.axes_json), rec.pixel_type,
                                rec.pixel_offset, rec.image_height, rec.image_width,
                                rec.metadata_offset, rec.metadata_length,
                                rec.filename)]

\* unpack_single_index_entry: the axes dict and the entry
unpack_single_index_entry(rec) ==
    [axes |-> rec.axes_json,
     entry |-> NDTiffIndexEntry(ItemsMethod(rec.axes_json), rec.pixel_type,
                                rec.pixel_offset, rec.image_width, rec.image_height,
                                rec.metadata_offset, rec.metadata_length,
                                rec.filename)]

\* read_ndtiff_index: a later record of a key replaces an earlier one
read_ndtiff_index(records) ==
    LET F[i \in 0..Len(records)] ==
            IF i = 0 THEN EmptyFn
            ELSE LET u == unpack_single_index_entry(records[i])
                 IN Put(F[i - 1], u.axes, u.entry)
    IN F[Len(records)]

(***************************************************************************)
(* SingleNDTiffWriter                                                      *)
(***************************************************************************)
\* next_ifd_offset_location before the first image: -1
MinusOne == [g |-> -1, b |-> BYTES_PER_GIG - 1]
extra_padding == 5000000
HeaderBytes == 28

\* __init__: preallocate MAX_FILE_SIZE bytes, write the header and the summary
\* metadata from offset 0
NewFile(summary_md) ==
    LET empty == [length |-> MAX_FILE_SIZE, data |-> <<>>, pos |-> Off(0),
                  closed |-> FALSE]
        first_ifd_offset == HeaderBytes + summary_md.nbytes
                            + ((HeaderBytes + summary_md.nbytes) % 2)
        header == [tag |-> "header", id |-> first_ifd_offset, n |-> summary_md.nbytes]
    IN FileWrite(FileWrite(empty, Off(HeaderBytes), header),
                 Off(summary_md.nbytes), Dumps(summary_md))
NewWriter(filename) ==
    [filename |-> filename, next_ifd_offset_location |-> MinusOne, buffers |-> <<>>]

\* _bytes_per_image_pixels of a 2-D array: uint16 only
BytesPerImagePixels(pixels) ==
    IF pixels.dtype = "uint16"
    THEN [ok |-> TRUE, n |-> pixels.h * pixels.w * 2]
    ELSE [ok |-> FALSE, n |-> 0]

\* has_space_to_write(pixels, metadata), metadata being the dict put_image got:
\* len(metadata) is its number of keys
HasSpaceToWrite(f, pixels, metadata) ==
    LET md_length == metadata.nkeys
        IFD_size == ENTRIES_PER_IFD * 12 + 4 + 16
        bpp == BytesPerImagePixels(pixels)
        size == OffPlus(OffPlus(f.pos, bpp.n), md_length + IFD_size + extra_padding)
    IN IF f.closed THEN "ValueError"
       ELSE IF ~bpp.ok THEN "RuntimeError"
       ELSE IF OffLe(MAX_FILE_SIZE, size) THEN "False" ELSE "True"

\* a faulty layout, which places the pixels right after the x resolution (the
\* visibility property must tell it from the layout of _write_ifd)
IfdLayoutShort(tell, nbytes_pixels, nbytes_md) ==
    LET next_loc == OffPlus(tell, 2 + 13 * 12)
        x_resolution_offset == OffPlus(next_loc, 4)
        y_resolution_offset == OffPlus(x_resolution_offset, 8)
        pixel_data_offset == y_resolution_offset
        metadata_offset == OffPlus(pixel_data_offset, nbytes_pixels)
        end == OffPlus(metadata_offset, nbytes_md)
    IN [ifd_bytes |-> 2 + 13 * 12 + 4 + 16,
        next_ifd_offset_location |-> next_loc,
        x_resolution_offset |-> x_resolution_offset,
        y_resolution_offset |-> y_resolution_offset,
        pixel_data_offset |-> pixel_data_offset,
        metadata_offset |-> metadata_offset,
        end |-> end,
        next_ifd_offset |-> IF OffOdd(end) THEN OffPlus(end, 1) ELSE end]

\* the layout _write_ifd computes from the (word aligned) position
IfdLayout(tell, nbytes_pixels, nbytes_md) ==
    LET num_entries == 13
        next_loc == OffPlus(tell, 2 + num_entries * 12)
        bits_per_sample_offset == OffPlus(next_loc, 4)
        x_resolution_offset == bits_per_sample_offset
        y_resolution_offset == OffPlus(x_resolution_offset, 8)
        pixel_data_offset == OffPlus(y_resolution_offset, 8)
        metadata_offset == OffPlus(pixel_data_offset, nbytes_pixels)
        end == OffPlus(metadata_offset, nbytes_md)
    IN [ifd_bytes |-> 2 + num_entries * 12 + 4 + 16,
        next_ifd_offset_location |-> next_loc,
        x_resolution_offset |-> x_resolution_offset,
        y_resolution_offset |-> y_resolution_offset,
        pixel_data_offset |-> pixel_data_offset,
        metadata_offset |-> metadata_offset,
        end |-> end,
        next_ifd_offset |-> IF OffOdd(end) THEN OffPlus(end, 1) ELSE end]

\* _write_ifd: align, lay out, pack the IFD (struct.error on a value that is
\* no uint32), queue the three buffers, return the index entry
WriteIfd(f, w, index_key, pixels, metadata) ==
    LET f1 == IF OffOdd(f.pos) THEN [f EXCEPT !.pos = OffPlus(f.pos, 1)] ELSE f
        bpp == BytesPerImagePixels(pixels)
        lay == IfdLayout(f1.pos, bpp.n, metadata.nbytes)
        w1 == [w EXCEPT !.next_ifd_offset_location = lay.next_ifd_offset_location]
        ifd == [tag |-> "ifd", id |-> lay.next_ifd_offset, n |-> 0]
        pixel_type == IF pixels.dtype = "uint8" THEN EIGHT_BIT ELSE SIXTEEN_BIT
    IN IF f.closed THEN [status |-> "ValueError", file |-> f, writer |-> w]
       ELSE IF ~bpp.ok THEN [status |-> "RuntimeError", file |-> f1, writer |-> w]
       ELSE IF ~(/\ FitsUint32(lay.pixel_data_offset)
                 /\ FitsUint32(lay.x_resolution_offset)
                 /\ FitsUint32(lay.y_resolution_offset)
                 /\ FitsUint32(lay.metadata_offset)
                 /\ FitsUint32(lay.next_ifd_offset))
       THEN [status |-> "struct.error", file |-> f1, writer |-> w1]
       ELSE [status |-> "ok", file |-> f1,
             writer |-> [w1 EXCEPT !.buffers =
                            w.buffers \o <<[len |-> Off(lay.ifd_bytes), body |-> ifd],
                                           [len |-> Off(bpp.n), body |-> PixelBytes(pixels)],
                                           [len |-> Off(metadata.nbytes),
                                            body |-> Dumps(metadata)]>>],
             entry |-> NDTiffIndexEntry(Items(index_key), pixel_type,
                                        lay.pixel_data_offset, pixels.w, pixels.h,
                                        lay.metadata_offset, metadata.nbytes,
                                        w.filename)]

\* finished_writing: write a zero next-IFD offset where the last IFD has its
\* own, truncate at the position, close; seeking to -1 raises
FinishedWriting(f, w) ==
    IF f.closed THEN [status |-> "ValueError", file |-> f]
    ELSE IF w.next_ifd_offset_location.g < 0 THEN [status |-> "OSError", file |-> f]
    ELSE LET patched == [f EXCEPT !.data =
                            Append(@, Extent(w.next_ifd_offset_location, Off(4),
                                             [tag |-> "null offset", id |-> 0, n |-> 0])),
                            !.length = OffMax(@, OffPlus(w.next_ifd_offset_location, 4))]
         IN [status |-> "ok",
             file |-> [patched EXCEPT !.length = f.pos, !.closed = TRUE]]

(***************************************************************************)
(* SingleNDTiffReader                                                      *)
(***************************************************************************)
\* read_image: the dtype and the bytes per pixel follow from the pixel type,
\* the shape from the entry's height and width
ReaderReadImage(f, index_entry) ==
    LET known == index_entry.pixel_type \in 0..6
        bytes_per_pixel == IF index_entry.pixel_type = 2 THEN 3
                           ELSE IF index_entry.pixel_type = EIGHT_BIT THEN 1 ELSE 2
        dtype == IF bytes_per_pixel = 2 THEN "uint16" ELSE "uint8"
        nbytes == index_entry.image_width * index_entry.image_height * bytes_per_pixel
        data == FileRead(f, index_entry.pix_offset, Off(nbytes))
    IN IF ~known THEN [status |-> "Exception", pix |-> NoPix]
       ELSE [status |-> "ok",
             pix |-> Pix(dtype, index_entry.image_height, index_entry.image_width,
                         IF data.tag = "pixels" THEN data.id ELSE -1)]

\* read_metadata: json.loads of the bytes at metadata_offset
ReaderReadMetadata(f, index_entry) ==
    LET data == FileRead(f, index_entry.metadata_offset, Off(index_entry.metadata_length))
    IN IF data.tag = "json"
       THEN [status |-> "ok", md |-> Loads(data, index_entry.metadata_length)]
       ELSE [status |-> "JSONDecodeError", md |-> NoMd]

(***************************************************************************)
(* The writable on-disk dataset (NDTiffDataset).  Its put_image, finish,   *)
(* close, queries and constructor follow the specification's description   *)
(* of the dataset; the writer, the reader and the index records they use   *)
(* are the ones above.                                                     *)
(***************************************************************************)
\* number of put_image calls explored on a dataset with files near the cap
MaxCapPuts == 4

NoWriter == [filename |-> "", next_ifd_offset_location |-> MinusOne, buffers |-> <<>>]
NoIndexFile == [exists |-> FALSE, closed |-> FALSE, records |-> <<>>]
NoEntry == NDTiffIndexEntry(Items({}), 0, Off(0), 0, 0, Off(0), 0, "")
NoJob == [key |-> {}, im |-> [pix |-> NoPix, md |-> NoMd], entry |-> NoEntry,
          space |-> "none"]
SummaryMd == Md(9, 1, 9)

\* NDTiffStack.tif, then NDTiffStack_{file_index}.tif
StackNames == <<"NDTiffStack_0.tif", "NDTiffStack_1.tif", "NDTiffStack_2.tif",
                "NDTiffStack_3.tif", "NDTiffStack_4.tif", "NDTiffStack_5.tif">>
StackName(first, i) == IF first THEN "NDTiffStack.tif" ELSE StackNames[i + 1]

\* the coordinates and images given to put_image
DiskCoordSeqs == {<<<<"time", IntVal(0)>>>>, <<<<"time", IntVal(1)>>>>,
                  <<<<"time", StrVal(0)>>>>, <<<<"time", StrVal(1)>>>>}
DiskImages == {[pix |-> Pix("uint16", 1, 2, 1), md |-> Md(1, 1, 20)],
               [pix |-> Pix("uint16", 2, 1, 2), md |-> Md(2, 2, 21)],
               [pix |-> Pix("uint8", 1, 1, 3), md |-> Md(1, 1, 20)]}
\* near the cap: a 26000 x 26000 uint16 image, and a small image whose one-key
\* metadata dict serializes to 240 MB
CapImages == {[pix |-> Pix("uint16", 26000, 26000, 1), md |-> Md(1, 1, 20)],
              [pix |-> Pix("uint16", 1, 1, 2), md |-> Md(2, 1, 240000000)]}
PutInputs ==
    IF kind = "disk" THEN DiskCoordSeqs \X DiskImages
    ELSE IF kind = "cap" THEN {<<<<"time", IntVal(nputs)>>>>} \X CapImages
    ELSE {}
PutBound == IF kind = "cap" THEN MaxCapPuts ELSE MaxPuts
DiskQueryKeys == {{<<"time", IntVal(0)>>}, {<<"time", StrVal(0)>>}}

Remove(f, k) == [x \in DOMAIN f \ {k} |-> f[x]]

\* a faulty add_index_entry, which does not insert the entry (the no-gap
\* property must tell it from add_index_entry)
AddIndexEntryDropped(idx, key, entry) == idx

\* add_index_entry(entry, new_image_updates=False): insert into index, open
\* the reader of the entry's file if there is none
AddIndexEntryIndex(idx, key, entry) == Put(idx, key, entry)
AddIndexEntryReaders(rd, entry) == rd \cup {entry.filename}

\* the dataset's lookup: write_pending first, then index and the file's reader
DiskLookup(q, what) ==
    LET c == ConsolidateAxes(q, axes_types, string_axes_values)
    IN IF c.status # "ok" THEN Ret(what, c.status, "raise", q, NoPix, NoMd)
       ELSE IF c.key \in DOMAIN write_pending
       THEN IF what = "has_image" THEN Ret(what, "ok", "True", q, NoPix, NoMd)
            ELSE IF what = "read_image"
            THEN Ret(what, "ok", "image", q, write_pending[c.key].pix, NoMd)
            ELSE Ret(what, "ok", "metadata", q, NoPix, write_pending[c.key].md)
       ELSE IF c.key \notin DOMAIN index
       THEN IF what = "has_image" THEN Ret(what, "ok", "False", q, NoPix, NoMd)
            ELSE Ret(what, "ImageNotFound", "raise", q, NoPix, NoMd)
       ELSE IF what = "has_image" THEN Ret(what, "ok", "True", q, NoPix, NoMd)
       ELSE LET e == index[c.key]
            IN IF e.filename \notin readers
               THEN Ret(what, "KeyError", "raise", q, NoPix, NoMd)
               ELSE IF closed THEN Ret(what, "ValueError", "raise", q, NoPix, NoMd)
               ELSE IF what = "read_image"
               THEN LET r == ReaderReadImage(files[e.filename], e)
                    IN Ret(what, r.status, IF r.status = "ok" THEN "image" ELSE "raise",
                           q, r.pix, NoMd)
               ELSE LET r == ReaderReadMetadata(files[e.filename], e)
                    IN Ret(what, r.status, IF r.status = "ok" THEN "metadata" ELSE "raise",
                           q, NoPix, r.md)
DiskHasImage(q) == DiskLookup(q, "has_image")
DiskReadImage(q) == DiskLookup(q, "read_image")
DiskReadMetadata(q) == DiskLookup(q, "read_metadata")

OnDisk == kind \in {"disk", "cap"}
PutRaises(status) ==
    /\ ret' = Ret("put_image", status, "raise", job.key, job.im.pix, job.im.md)
    /\ wpc' = "idle"
    /\ job' = NoJob
    /\ put_failed' = TRUE

\* put_image, first locked section: require writable, insert into write_pending,
\* update the axes, signal new_image
PutImageBegin(coords, im) ==
    /\ OnDisk /\ ~closed /\ wpc = "idle"
    /\ nputs < PutBound
    /\ <<coords, im>> \in PutInputs
    /\ nputs' = nputs + 1
    /\ IF ~writable
       THEN /\ ret' = Ret("put_image", "RuntimeError", "raise", Key(coords), im.pix, im.md)
            /\ UNCHANGED <<baseVars, write_pending, wpc, job, written, put_failed, put_dup>>
       ELSE LET key == Key(coords)
                u == UpdateAxes(coords, axes, axes_keys, axes_types, string_axes_values)
            IN /\ write_pending' = Put(write_pending, key, im)
               /\ axes' = u.axes
               /\ axes_keys' = u.keys
               /\ axes_types' = u.types
               /\ string_axes_values' = u.sav
               /\ new_image_event' = IF u.ok THEN TRUE ELSE new_image_event
               /\ written' = Remove(written, key)
               /\ put_dup' = (put_dup \/ key \in DOMAIN write_pending \cup DOMAIN index)
               /\ IF u.ok
                  THEN /\ wpc' = "writer"
                       /\ job' = [key |-> key, im |-> im, entry |-> NoEntry, space |-> "none"]
                       /\ UNCHANGED <<ret, put_failed>>
                  ELSE /\ ret' = Ret("put_image", "RuntimeError", "raise", key, im.pix, im.md)
                       /\ put_failed' = TRUE
                       /\ UNCHANGED <<wpc, job>>
    /\ UNCHANGED <<kind, auxVars, ramVars, closed, writable, index, readers, current_writer,
                   file_index, files, index_file, appended>>

\* put_image: create the first writer and the index file, or start the next
\* file when the current one has no space for the image
PutImageEnsureWriter ==
    /\ OnDisk /\ wpc = "writer"
    /\ IF current_writer = NoWriter
       THEN LET name == StackName(TRUE, file_index)
            IN /\ files' = Put(files, name, NewFile(SummaryMd))
               /\ current_writer' = NewWriter(name)
               /\ index_file' = [exists |-> TRUE, closed |-> FALSE, records |-> <<>>]
               /\ job' = [job EXCEPT !.space = "new"]
               /\ wpc' = "write_ifd"
               /\ UNCHANGED <<file_index, ret, put_failed>>
       ELSE LET f == files[current_writer.filename]
                hs == HasSpaceToWrite(f, job.im.pix, job.im.md)
                fin == FinishedWriting(f, current_writer)
                name == StackName(FALSE, file_index)
            IN IF hs = "True"
               THEN /\ job' = [job EXCEPT !.space = "True"]
                    /\ wpc' = "write_ifd"
                    /\ UNCHANGED <<files, current_writer, index_file, file_index, ret,
                                   put_failed>>
               ELSE IF hs = "False" /\ fin.status = "ok"
               THEN /\ files' = Put(Put(files, current_writer.filename, fin.file),
                                    name, NewFile(SummaryMd))
                    /\ current_writer' = NewWriter(name)
                    /\ file_index' = file_index + 1
                    /\ job' = [job EXCEPT !.space = "False"]
                    /\ wpc' = "write_ifd"
                    /\ UNCHANGED <<index_file, ret, put_failed>>
               ELSE /\ PutRaises(IF hs = "False" THEN fin.status ELSE hs)
                    /\ UNCHANGED <<files, current_writer, index_file, file_index>>
    /\ UNCHANGED <<kind, auxVars, baseVars, ramVars, closed, writable, index, readers,
                   write_pending, written, appended, put_dup, nputs>>

\* put_image -> write_image -> _write_ifd
PutImageWriteIfd ==
    /\ OnDisk /\ wpc = "write_ifd"
    /\ LET name == current_writer.filename
           r == WriteIfd(files[name], current_writer, job.key, job.im.pix, job.im.md)
       IN /\ files' = Put(files, name, r.file)
          /\ current_writer' = r.writer
          /\ IF r.status = "ok"
             THEN /\ job' = [job EXCEPT !.entry = r.entry]
                  /\ wpc' = "write_buffers"
                  /\ UNCHANGED <<ret, put_failed>>
             ELSE PutRaises(r.status)
    /\ UNCHANGED <<kind, auxVars, baseVars, ramVars, closed, writable, index, readers,
                   write_pending, file_index, index_file, written, appended, put_dup,
                   nputs>>

\* write_image: file.write(buffers.popleft()), once per queued buffer
PutImageWriteBuffer ==
    /\ OnDisk /\ wpc = "write_buffers"
    /\ LET name == current_writer.filename
           buf == Head(current_writer.buffers)
       IN IF files[name].closed
          THEN /\ PutRaises("ValueError")
               /\ current_writer' = [current_writer EXCEPT !.buffers = Tail(@)]
               /\ UNCHANGED files
          ELSE /\ files' = Put(files, name, FileWrite(files[name], buf.len, buf.body))
               /\ current_writer' = [current_writer EXCEPT !.buffers = Tail(@)]
               /\ wpc' = IF Len(current_writer.buffers) = 1 THEN "install"
                         ELSE "write_buffers"
               /\ UNCHANGED <<ret, job, put_failed>>
    /\ UNCHANGED <<kind, auxVars, baseVars, ramVars, closed, writable, index, readers,
                   write_pending, file_index, index_file, written, appended, put_dup,
                   nputs>>

\* put_image: add_index_entry(entry, new_image_updates=False)
PutImageInstall ==
    /\ OnDisk /\ wpc = "install"
    /\ index' = AddIndexEntryIndex(index, job.key, job.entry)
    /\ readers' = AddIndexEntryReaders(readers, job.entry)
    /\ wpc' = "commit"
    /\ UNCHANGED <<kind, auxVars, baseVars, ramVars, closed, writable, write_pending,
                   current_writer, file_index, files, index_file, job, ret, ghostVars>>

\* put_image: append the entry's bytes to NDTiff.index, delete the image from
\* write_pending, return
PutImageCommit ==
    /\ OnDisk /\ wpc = "commit"
    /\ IF index_file.closed
       THEN /\ PutRaises("ValueError")
            /\ UNCHANGED <<index_file, write_pending, written, appended>>
       ELSE /\ index_file' = [index_file EXCEPT
                                 !.records = Append(@, as_byte_buffer(job.entry))]
            /\ write_pending' = Remove(write_pending, job.key)
            /\ written' = Put(written, job.key, job.im)
            /\ appended' = Append(appended, [key |-> job.key, im |-> job.im])
            /\ ret' = Ret("put_image", "ok", "None", job.key, job.im.pix, job.im.md)
            /\ wpc' = "idle"
            /\ job' = NoJob
            /\ UNCHANGED put_failed
    /\ UNCHANGED <<kind, auxVars, baseVars, ramVars, closed, writable, index, readers,
                   current_writer, file_index, files, put_dup, nputs>>

\* finish: close the writer, close the index file, set finished
DiskFinish ==
    /\ OnDisk /\ writable /\ ~closed
    /\ LET fin == FinishedWriting(files[current_writer.filename], current_writer)
       IN IF current_writer = NoWriter
          THEN /\ finished_event' = TRUE
               /\ ret' = Ret("finish", "ok", "None", {}, NoPix, NoMd)
               /\ UNCHANGED <<files, index_file>>
          ELSE IF fin.status = "ok"
          THEN /\ files' = Put(files, current_writer.filename, fin.file)
               /\ index_file' = [index_file EXCEPT !.closed = TRUE]
               /\ finished_event' = TRUE
               /\ ret' = Ret("finish", "ok", "None", {}, NoPix, NoMd)
          ELSE /\ ret' = Ret("finish", fin.status, "raise", {}, NoPix, NoMd)
               /\ UNCHANGED <<files, index_file, finished_event>>
    /\ UNCHANGED <<kind, auxVars, baseVars, images, image_metadata, legacy_finished_event,
                   closed, writable, index, readers, write_pending, current_writer,
                   file_index, wpc, job, ghostVars>>

\* close: release the readers
DiskClose ==
    /\ OnDisk /\ ~closed /\ wpc = "idle"
    /\ closed' = TRUE
    /\ ret' = Ret("close", "ok", "None", {}, NoPix, NoMd)
    /\ UNCHANGED <<kind, auxVars, baseVars, ramVars, diskVars, ghostVars>>

\* the axis tables of a dataset opened from an index: every key, in the order
\* of the records
RECURSIVE AxesOfRecords(_, _, _)
AxesOfRecords(records, i, u) ==
    IF i > Len(records) THEN u
    ELSE AxesOfRecords(records, i + 1,
                       UpdateAxes(QuerySeq(records[i].axes_json),
                                  u.axes, u.keys, u.types, u.sav))

\* opening the directory again, read-only: decode NDTiff.index, open a reader
\* for every .tif file, build the axis tables from the index keys
DiskOpen ==
    /\ OnDisk /\ closed
    /\ IF ~index_file.exists
       THEN /\ ret' = Ret("open", "FileNotFoundError", "raise", {}, NoPix, NoMd)
            /\ UNCHANGED <<baseVars, closed, writable, index, readers, write_pending,
                           current_writer>>
       ELSE LET u == AxesOfRecords(index_file.records, 1,
                                   [ok |-> TRUE, axes |-> EmptyFn, keys |-> <<>>,
                                    types |-> EmptyFn, sav |-> EmptyFn])
            IN /\ index' = read_ndtiff_index(index_file.records)
               /\ readers' = DOMAIN files
               /\ write_pending' = EmptyFn
               /\ current_writer' = NoWriter
               /\ writable' = FALSE
               /\ closed' = FALSE
               /\ axes' = u.axes
               /\ axes_keys' = SortAxes(u.keys)
               /\ axes_types' = u.types
               /\ string_axes_values' = u.sav
               /\ new_image_event' = FALSE
               /\ ret' = Ret("open", "ok", "None", {}, NoPix, NoMd)
    /\ UNCHANGED <<kind, auxVars, ramVars, file_index, files, index_file, wpc, job, ghostVars>>

\* one query of the dataset
DiskQuery(q) ==
    /\ kind = "disk"
    /\ ret' \in {DiskHasImage(q), DiskReadImage(q), DiskReadMetadata(q)}
    /\ UNCHANGED <<kind, auxVars, baseVars, ramVars, diskVars, closed, ghostVars>>

(***************************************************************************)
(* NDStorageBase.as_array(), not stitched and with no axis sliced: one     *)
(* block per combination of the values of the axes.                        *)
(***************************************************************************)
\* image_height, image_width, dtype and bytes_per_pixel are known: the
\* dataset on disk infers them from the first image it is given or finds in
\* its index; NDRAMDataset never calls _infer_image_properties
ImagePropertiesKnown == OnDisk /\ DOMAIN index \cup DOMAIN write_pending # {}

\* np.zeros((h, w), dtype)
EmptyTile == Pix("zeros", 0, 0, 0)

\* the ids of the blocks: for each axis a position in its list of values
BlockIds ==
    {b \in [DOMAIN axes -> 1..(PutBound + 1)] : \A a \in DOMAIN axes : b[a] <= Len(axes[a])}

\* a faulty block reader, which counts the positions of an axis from the end
\* (the stacking property must tell it from _read_one_image_for_large_array)
ReadOneImageReversed(block_id) ==
    LET q == {<<a, axes[a][Len(axes[a]) + 1 - block_id[a]]>> : a \in DOMAIN axes}
    IN IF DiskHasImage(q).val = "True" THEN DiskReadImage(q) ELSE DiskHasImage(q)

\* _read_one_image_for_large_array: the coordinate of each axis is the value at
\* the block's position in list(self.axes[axis]); the image if has_image,
\* else the empty tile
ReadOneImageForLargeArray(block_id) ==
    LET q == {<<a, axes[a][block_id[a]]>> : a \in DOMAIN axes}
        h == IF kind = "ram" THEN RamHasImage(q) ELSE DiskHasImage(q)
    IN IF h.val = "True"
       THEN IF kind = "ram" THEN RamReadImage(q) ELSE DiskReadImage(q)
       ELSE h

\* np.asarray(dataset.as_array()): the blocks, or the exception raised
AsArray ==
    IF ~ImagePropertiesKnown
    THEN [status |-> "Exception", order |-> <<>>, blocks |-> EmptyFn]
    ELSE LET r == [b \in BlockIds |-> ReadOneImageForLargeArray(b)]
             bad == {b \in BlockIds : r[b].status # "ok"}
         IN IF bad # {}
            THEN [status |-> r[CHOOSE b \in bad : TRUE].status, order |-> axes_keys,
                  blocks |-> EmptyFn]
            ELSE [status |-> "ok", order |-> axes_keys,
                  blocks |-> [b \in BlockIds |->
                                 IF r[b].val = "False" THEN EmptyTile ELSE r[b].pix]]

\* a call of np.asarray(dataset.as_array()); what it returns is kept as the
\* status and the first block
AsArrayCall ==
    /\ kind \in {"ram", "disk", "cap"} /\ ~closed
    /\ LET arr == AsArray
           first == [a \in DOMAIN axes |-> 1]
       IN ret' = Ret("as_array", arr.status, IF arr.status = "ok" THEN "array" ELSE "raise",
                     {}, IF arr.status = "ok" /\ first \in DOMAIN arr.blocks
                         THEN arr.blocks[first] ELSE NoPix, NoMd)
    /\ UNCHANGED <<kind, auxVars, baseVars, ramVars, diskVars, closed, ghostVars>>

(***************************************************************************)
(* NDStorageBase.as_array(stitched=True) of a dataset of tiles: a RAM      *)
(* dataset whose images are named by row and column and whose image        *)
(* properties, _overlap and _full_resolution were set by the code that     *)
(* built it.  A tile of the block is a window of an image: the value of    *)
(* its pixels, the first row and column it keeps, and its shape.           *)
(***************************************************************************)
Tile(val, top, left, h, w) == [val |-> val, top |-> top, left |-> left, h |-> h, w |-> w]

\* the tiles the model stores, 4 rows by 6 columns
TileImages == {[pix |-> Pix("uint16", 4, 6, 1), md |-> Md(1, 1, 20)],
               [pix |-> Pix("uint16", 4, 6, 2), md |-> Md(2, 1, 21)]}
\* the grid positions the model fills: rows -1..1, columns 0..1
TileCoords == {<<<<"row", IntVal(r)>>, <<"column", IntVal(c)>>>> : r \in -1..1, c \in 0..1}
\* _overlap as (y, x), or None
Overlaps == ((0..3) \X (0..3)) \cup {<<>>}

\* self.image_height, self.image_width: those of the images held
ImageShape ==
    IF images = EmptyFn THEN [h |-> 0, w |-> 0]
    ELSE LET p == images[CHOOSE k \in DOMAIN images : TRUE] IN [h |-> p.h, w |-> p.w]

\* a[lo:-hi] on an axis of length len: -0 is 0, so a stop of -0 keeps nothing
TileSlice(len, lo, hi) ==
    LET start == IF lo < len THEN lo ELSE len
        stop == IF hi = 0 THEN 0 ELSE IF len - hi > 0 THEN len - hi ELSE 0
    IN [first |-> start, n |-> IF stop > start THEN stop - start ELSE 0]

\* a faulty crop, which takes the floor of half the overlap off both ends (the
\* overlap property must tell it from the crop of the block reader)
CropTileFloor(pix, overlap, full_resolution) ==
    IF overlap[1] > 0 /\ full_resolution
    THEN LET rows == TileSlice(pix.h, overlap[1] \div 2, overlap[1] \div 2)
             cols == TileSlice(pix.w, overlap[2] \div 2, overlap[2] \div 2)
         IN Tile(pix.val, rows.first, cols.first, rows.n, cols.n)
    ELSE Tile(pix.val, 0, 0, pix.h, pix.w)

\* if np.any(overlap[0] > 0) and full_resolution:
\*     tile = tile[min_index[0]:-max_index[0], min_index[1]:-max_index[1]]
\* with min_index = floor(overlap / 2) and max_index = ceil(overlap / 2)
CropTile(pix, overlap, full_resolution) ==
    IF overlap[1] > 0 /\ full_resolution
    THEN LET rows == TileSlice(pix.h, overlap[1] \div 2, (overlap[1] + 1) \div 2)
             cols == TileSlice(pix.w, overlap[2] \div 2, (overlap[2] + 1) \div 2)
         IN Tile(pix.val, rows.first, cols.first, rows.n, cols.n)
    ELSE Tile(pix.val, 0, 0, pix.h, pix.w)

\* self._empty_tile = np.zeros((h, w)): the image shape, less the overlap when
\* stitched at full resolution
StitchedEmptyTile(overlap, full_resolution) ==
    IF full_resolution
    THEN Tile(0, 0, 0, ImageShape.h - overlap[1], ImageShape.w - overlap[2])
    ELSE Tile(0, 0, 0, ImageShape.h, ImageShape.w)

\* np.arange(np.min(values), np.max(values) + 1) of a SortedSet of ints
GridValues(a) ==
    [i \in 1..(axes[a][Len(axes[a])].n - axes[a][1].n + 1) |-> axes[a][1].n + i - 1]

\* the nested list blocks of _read_one_image_for_large_array: for each row and
\* column of the grid the cropped image, or the empty tile if not has_image
StitchedBlocks(overlap, full_resolution) ==
    [i \in DOMAIN GridValues("row") |->
        [j \in DOMAIN GridValues("column") |->
            LET q == {<<"row", IntVal(GridValues("row")[i])>>,
                      <<"column", IntVal(GridValues("column")[j])>>}
            IN IF RamHasImage(q).val = "True"
               THEN CropTile(RamReadImage(q).pix, overlap, full_resolution)
               ELSE StitchedEmptyTile(overlap, full_resolution)]]

\* da.concatenate along one axis: arrays of size 0 are dropped unless all are
\* of size 0; the others must agree in the other dimension, else ValueError.
\* Each part is [along, across]: its length along the axis and across it.
Concatenate(parts) ==
    LET sized == SelectSeq(parts, LAMBDA p : p.along * p.across > 0)
        seq == IF sized = <<>> THEN parts ELSE sized
        F[i \in 0..Len(seq)] == IF i = 0 THEN 0 ELSE F[i - 1] + seq[i].along
    IN [ok |-> \A i \in DOMAIN seq : seq[i].across = seq[1].across,
        along |-> F[Len(seq)], across |-> seq[1].across]

\* np.array(da.block(blocks)): the tiles of a row side by side, the rows one
\* under the other; the shape of the result, or ValueError
DaBlock(blocks) ==
    LET row(i) == Concatenate([j \in DOMAIN blocks[i] |->
                                  [along |-> blocks[i][j].w, across |-> blocks[i][j].h]])
        all == Concatenate([i \in DOMAIN blocks |->
                               [along |-> row(i).across, across |-> row(i).along]])
    IN IF (\E i \in DOMAIN blocks : ~row(i).ok) \/ ~all.ok
       THEN [status |-> "ValueError", h |-> 0, w |-> 0]
       ELSE [status |-> "ok", h |-> all.along, w |-> all.across]

\* np.asarray(dataset.as_array(stitched=True)) with no other axis: the chunk
\* shape that as_array declares, the tiles and the shape of the block
AsArrayStitched(overlap, full_resolution) ==
    IF overlap = <<>> \/ images = EmptyFn
    THEN [status |-> "Exception", chunks |-> <<0, 0>>, blocks |-> <<>>, h |-> 0, w |-> 0]
    ELSE IF ~({"row", "column"} \subseteq DOMAIN axes)
    THEN [status |-> "KeyError", chunks |-> <<0, 0>>, blocks |-> <<>>, h |-> 0, w |-> 0]
    ELSE LET empty == StitchedEmptyTile(overlap, full_resolution)
             blocks == StitchedBlocks(overlap, full_resolution)
             b == DaBlock(blocks)
         IN [status |-> b.status,
             chunks |-> <<empty.h * Len(GridValues("row")),
                          empty.w * Len(GridValues("column"))>>,
             blocks |-> blocks, h |-> b.h, w |-> b.w]

\* a call of np.asarray(dataset.as_array(stitched=True)) on a dataset with the
\* given _overlap and _full_resolution; what it returns is kept as the status,
\* the shape of the block and its first tile
AsArrayStitchedCall(overlap, full_resolution) ==
    /\ kind = "tiles" /\ ~closed
    /\ LET arr == AsArrayStitched(overlap, full_resolution)
       IN ret' = Ret("as_array(stitched)", arr.status,
                     IF arr.status = "ok" THEN "array" ELSE "raise",
                     {<<"overlap", IntVal(overlap[i])>> : i \in DOMAIN overlap}
                         \cup {<<"full_resolution", IntVal(IF full_resolution THEN 1 ELSE 0)>>},
                     IF arr.status = "ok"
                     THEN Pix("uint16", arr.h, arr.w, arr.blocks[1][1].val) ELSE NoPix,
                     NoMd)
    /\ UNCHANGED <<kind, auxVars, baseVars, ramVars, diskVars, closed, ghostVars>>

(***************************************************************************)
(* NDTiffPyramidDataset: a dict from resolution level to the dataset of    *)
(* that level's directory.  Of a level's dataset only the readers that it  *)
(* opened are kept, one for each .tif file of the directory.               *)
(***************************************************************************)
\* NDTiffDataset(dataset_path=res_dir_path): a reader for every .tif file
ResLevelDataset(ntiffs) ==
    [kind |-> "dataset", readers |-> {StackName(i = 0, i) : i \in 0..(ntiffs - 1)}]

\* the directories of a pyramid on disk, in the order of listdir: each is a
\* level (0 for "Full resolution") and its number of .tif files
PyramidDirs ==
    {<<<<0, a>>>> : a \in 1..3}
        \cup {<<<<0, a>>, <<1, b>>>> : a \in 1..3, b \in 1..3}
        \cup {<<<<1, b>>, <<0, a>>>> : a \in 1..3, b \in 1..3}
        \cup {<<<<0, a>>, <<1, b>>, <<2, c>>>> : a \in 1..3, b \in 1..3, c \in 1..3}
        \cup {<<<<1, b>>>> : b \in 1..3}

\* x.close() for what the loop of close() binds x to: the readers of a
\* dataset are closed; an int has no attribute close
ResLevelClose(x) ==
    IF x.kind = "dataset"
    THEN [status |-> "ok", value |-> [x EXCEPT !.readers = {}]]
    ELSE [status |-> "AttributeError", value |-> x]

\* for res_level in self.res_levels: iterating a dict gives its keys
DictIter(d) == [i \in DOMAIN d |-> d[i][1]]

\* NDTiffPyramidDataset(dataset_path): a dataset for each directory
PyramidOpen(dirs) ==
    /\ kind = "pyramid" /\ res_levels = <<>>
    /\ IF \E i \in DOMAIN dirs : dirs[i][1] = 0
       THEN /\ res_levels' = [i \in DOMAIN dirs |->
                                 <<IntVal(dirs[i][1]), ResLevelDataset(dirs[i][2])>>]
            /\ ret' = Ret("__init__", "ok", "None", {}, NoPix, NoMd)
       ELSE /\ ret' = Ret("__init__", "Exception", "raise", {}, NoPix, NoMd)
            /\ UNCHANGED res_levels
    /\ UNCHANGED <<kind, baseVars, ramVars, diskVars, closed, ghostVars, byteorder, apc,
                   index_data, encoded, opc, seen>>

\* get_index_keys(res_level): self.res_levels[res_level].get_index_keys()
PyramidGetIndexKeys(res_level) ==
    /\ kind = "pyramid" /\ res_levels # <<>>
    /\ ret' = Ret("get_index_keys",
                  IF \E i \in DOMAIN res_levels : res_levels[i][1] = IntVal(res_level)
                  THEN "ok" ELSE "KeyError",
                  IF \E i \in DOMAIN res_levels : res_levels[i][1] = IntVal(res_level)
                  THEN "list" ELSE "raise",
                  {<<"res_level", IntVal(res_level)>>}, NoPix, NoMd)
    /\ UNCHANGED <<kind, baseVars, ramVars, diskVars, closed, ghostVars, auxVars>>

\* close(): with self._lock: for res_level in self.res_levels:
\* res_level.close(); the loop ends at the first call that raises
PyramidClose ==
    /\ kind = "pyramid" /\ res_levels # <<>>
    /\ LET items == DictIter(res_levels)
           r == [i \in DOMAIN items |-> ResLevelClose(items[i])]
           bad == {i \in DOMAIN items : r[i].status # "ok"}
       IN /\ ret' = Ret("close", IF bad = {} THEN "ok" ELSE r[CHOOSE i \in bad : TRUE].status,
                        IF bad = {} THEN "None" ELSE "raise", {}, NoPix, NoMd)
          \* the values that close() was called on are not entries of the dict
          /\ UNCHANGED res_levels
    /\ closed' = TRUE
    /\ UNCHANGED <<kind, baseVars, ramVars, diskVars, ghostVars, byteorder, apc,
                   index_data, encoded, opc, seen>>

(***************************************************************************)
(* ndtiff NDTiffDataset (nd_tiff_current.py): a read-only view of a        *)
(* dataset that another process writes.  That process creates the files,   *)
(* writes their headers and appends records to NDTiff.index; the view is   *)
(* told of each new image through _add_index_entry.                        *)
(***************************************************************************)
LiveFileNames == {"NDTiffStack.tif", "NDTiffStack_1.tif"}
LiveKeys == {{<<"time", IntVal(0)>>}, {<<"time", IntVal(1)>>}}
\* a key of two axes, whose JSON text names channel before time
LiveKey2 == {<<"channel", IntVal(0)>>, <<"time", IntVal(0)>>}
\* the bytes of an index record as the writing process sends them
LiveRecord(key, filename) ==
    [axes_json |-> key, filename |-> filename, pixel_offset |-> Off(216),
     image_width |-> 1, image_height |-> 1, pixel_type |-> SIXTEEN_BIT,
     pixel_compression |-> 0, metadata_offset |-> Off(218), metadata_length |-> 20,
     metadata_compression |-> 0]
LiveRecords == {LiveRecord(k, n) : k \in LiveKeys, n \in LiveFileNames}
                   \cup {LiveRecord(LiveKey2, "NDTiffStack.tif")}

\* a file that was created and preallocated and has no header yet
BlankFile == [length |-> MAX_FILE_SIZE, data |-> <<>>, pos |-> Off(0), closed |-> FALSE]

\* _SingleNDTiffReader.__init__: open the file and read the header
LegacyReaderOpen(fs, name) ==
    IF name \notin DOMAIN fs THEN "FileNotFoundError"
    ELSE IF FileRead(fs[name], Off(0), Off(HeaderBytes)).tag # "header" THEN "Exception"
    ELSE "ok"

\* _read_single_index_entry: the entry is a dict, stored under the axes key
LegacyEntry(rec) ==
    [filename |-> rec.filename, pixel_offset |-> rec.pixel_offset,
     image_width |-> rec.image_width, image_height |-> rec.image_height,
     pixel_type |-> rec.pixel_type, pixel_compression |-> rec.pixel_compression,
     metadata_offset |-> rec.metadata_offset, metadata_length |-> rec.metadata_length,
     metadata_compression |-> rec.metadata_compression]
ReadSingleIndexEntry(rec, entries) == Put(entries, rec.axes_json, LegacyEntry(rec))

\* read_index
RECURSIVE LegacyReadIndex(_, _, _)
LegacyReadIndex(records, i, entries) ==
    IF i > Len(records) THEN entries
    ELSE LegacyReadIndex(records, i + 1, ReadSingleIndexEntry(records[i], entries))

\* the axes update of _add_index_entry and of __init__: a new axis gets the
\* type of its value, the values are kept as a sorted list without repeats
LegacyAxes(key, u) ==
    LET names == {p[1] : p \in key}
        fresh == {a \in names : a \notin DOMAIN u.axes}
        val(a) == (CHOOSE p \in key : p[1] = a)[2]
        order == QuerySeq(key)
        F[i \in 0..Len(order)] ==
            IF i = 0 THEN u.keys
            ELSE IF order[i][1] \in fresh THEN Append(F[i - 1], order[i][1]) ELSE F[i - 1]
        old(a) == IF a \in DOMAIN u.axes THEN u.axes[a] ELSE <<>>
    IN [axes |-> [a \in DOMAIN u.axes \cup names |->
                     IF a \in names THEN SortedSetAdd(old(a), val(a)) ELSE old(a)],
        keys |-> F[Len(order)],
        types |-> [a \in DOMAIN u.types \cup fresh |->
                      IF a \in DOMAIN u.types THEN u.types[a] ELSE val(a).kind]]

\* the other process creates a file
ExternalCreateFile(name) ==
    /\ kind = "live"
    /\ name \notin DOMAIN files
    /\ files' = Put(files, name, BlankFile)
    /\ UNCHANGED <<kind, auxVars, baseVars, ramVars, closed, writable, index, readers,
                   write_pending, current_writer, file_index, index_file, wpc, job,
                   ret, ghostVars>>

\* the other process writes the header and the summary metadata of a file
ExternalWriteHeader(name) ==
    /\ kind = "live"
    /\ name \in DOMAIN files /\ files[name] = BlankFile
    /\ files' = Put(files, name, NewFile(SummaryMd))
    /\ UNCHANGED <<kind, auxVars, baseVars, ramVars, closed, writable, index, readers,
                   write_pending, current_writer, file_index, index_file, wpc, job,
                   ret, ghostVars>>

\* the other process appends the record of an image it wrote to NDTiff.index
ExternalAppendRecord(rec) ==
    /\ kind = "live"
    /\ Len(index_file.records) < MaxPuts
    /\ LegacyReaderOpen(files, rec.filename) = "ok"
    /\ index_file' = [exists |-> TRUE, closed |-> FALSE,
                      records |-> Append(index_file.records, rec)]
    /\ UNCHANGED <<kind, auxVars, baseVars, ramVars, closed, writable, index, readers,
                   write_pending, current_writer, file_index, files, wpc, job,
                   ret, ghostVars>>

\* _add_index_entry(data): the entry goes into index, then the reader of its
\* file is opened if there is none, then the axes are updated
LiveAddIndexEntry(rec) ==
    /\ kind = "live"
    /\ nputs < MaxPuts
    /\ nputs' = nputs + 1
    /\ index' = ReadSingleIndexEntry(rec, index)
    /\ LET opened == IF rec.filename \in readers THEN "ok"
                     ELSE LegacyReaderOpen(files, rec.filename)
           u == LegacyAxes(rec.axes_json,
                           [axes |-> axes, keys |-> axes_keys, types |-> axes_types])
       IN IF opened = "ok"
          THEN /\ readers' = readers \cup {rec.filename}
               /\ axes' = u.axes
               /\ axes_keys' = u.keys
               /\ axes_types' = u.types
               /\ ret' = Ret("_add_index_entry", "ok", "None", rec.axes_json, NoPix, NoMd)
          ELSE /\ ret' = Ret("_add_index_entry", opened, "raise", rec.axes_json,
                             NoPix, NoMd)
               /\ UNCHANGED <<readers, axes, axes_keys, axes_types>>
    /\ UNCHANGED <<kind, auxVars, ramVars, closed, writable, write_pending, current_writer,
                   file_index, files, index_file, wpc, job, string_axes_values,
                   new_image_event, written, appended, put_failed, put_dup>>

\* NDTiffDataset(path): read the index, open a reader for every .tif file of
\* the directory, build the axes from the keys of the index
LiveOpenFromDisk ==
    /\ kind = "live"
    /\ LET idx == LegacyReadIndex(index_file.records, 1, EmptyFn)
           bad == {n \in DOMAIN files : LegacyReaderOpen(files, n) # "ok"}
           G[i \in 0..Len(index_file.records)] ==
               IF i = 0 THEN [axes |-> EmptyFn, keys |-> <<>>, types |-> EmptyFn]
               ELSE LegacyAxes(index_file.records[i].axes_json, G[i - 1])
           u == G[Len(index_file.records)]
       IN IF ~index_file.exists
          THEN /\ ret' = Ret("open", "FileNotFoundError", "raise", {}, NoPix, NoMd)
               /\ UNCHANGED <<index, readers, axes, axes_keys, axes_types>>
          ELSE IF bad # {}
          THEN /\ ret' = Ret("open", "Exception", "raise", {}, NoPix, NoMd)
               /\ UNCHANGED <<index, readers, axes, axes_keys, axes_types>>
          ELSE /\ index' = idx
               /\ readers' = DOMAIN files
               /\ axes' = u.axes
               /\ axes_keys' = SortAxes(u.keys)
               /\ axes_types' = u.types
               /\ ret' = Ret("open", "ok", "None", {}, NoPix, NoMd)
    /\ UNCHANGED <<kind, auxVars, ramVars, closed, writable, write_pending, current_writer,
                   file_index, files, index_file, wpc, job, string_axes_values,
                   new_image_event, ghostVars>>

\* _do_read_image(axes)
LiveDoReadImage(key) ==
    IF key \notin DOMAIN index
    THEN Ret("read_image", "Exception", "raise", key, NoPix, NoMd)
    ELSE IF index[key].filename \notin readers
    THEN Ret("read_image", "KeyError", "raise", key, NoPix, NoMd)
    ELSE LET e == index[key]
             data == FileRead(files[e.filename], e.pixel_offset,
                              Off(e.image_width * e.image_height * 2))
         IN Ret("read_image", "ok", "image", key,
                Pix("uint16", e.image_height, e.image_width,
                    IF data.tag = "pixels" THEN data.id ELSE -1), NoMd)
LiveReadImage(key) ==
    /\ kind = "live"
    /\ ret' = LiveDoReadImage(key)
    /\ UNCHANGED <<kind, auxVars, baseVars, ramVars, diskVars, closed, ghostVars>>

(***************************************************************************)
(* The index as a stream of bytes                                          *)
(***************************************************************************)
\* a run of bytes of the stream: the field it holds, the number of bytes of
\* the whole field, the number of them that are there, and the record whose
\* field it is
Chunk(tag, len, have, rec) == [tag |-> tag, len |-> len, have |-> have, rec |-> rec]
NoChunk == Chunk("end", 0, 0, as_byte_buffer(NoEntry))

\* len(json.dumps(axes).encode('utf-8')): the braces, '"name": value' for
\* each axis, ', ' between two of them; a string value has one letter
RECURSIVE AxesPairsLen(_)
AxesPairsLen(s) ==
    IF s = {} THEN 0
    ELSE LET p == CHOOSE x \in s : TRUE
             name_len == CASE p[1] = "channel" -> 7 [] p[1] = "time" -> 4 [] OTHER -> 1
             value_len == IF p[2].kind = "str" THEN 3 ELSE IF p[2].n < 10 THEN 1 ELSE 2
         IN name_len + value_len + 4 + AxesPairsLen(s \ {p})
AxesTextLen(key) ==
    AxesPairsLen(key) + (IF key = {} THEN 2 ELSE 2 * Cardinality(key))

\* len(self.filename.encode('utf-8'))
FilenameLen(name) ==
    CASE name = "" -> 0 [] name = "NDTiffStack.tif" -> 15 [] OTHER -> 17

\* the bytes as_byte_buffer writes: two length words, each before its text,
\* and eight uint32
RecordBytes(rec) ==
    <<Chunk("axes_length", 4, 4, rec),
      Chunk("axes", AxesTextLen(rec.axes_json), AxesTextLen(rec.axes_json), rec),
      Chunk("filename_length", 4, 4, rec),
      Chunk("filename", FilenameLen(rec.filename), FilenameLen(rec.filename), rec),
      Chunk("entry", 32, 32, rec)>>

\* the offset of the i-th run; that of the run after the last is len(data)
RECURSIVE ChunkStart(_, _)
ChunkStart(data, i) == IF i <= 1 THEN 0 ELSE ChunkStart(data, i - 1) + data[i - 1].have

\* data[position: position + n]: the run that starts at position, or nothing
Slice(data, position) ==
    IF \E i \in DOMAIN data : ChunkStart(data, i) = position
    THEN data[CHOOSE i \in DOMAIN data : ChunkStart(data, i) = position]
    ELSE NoChunk

\* struct.unpack("I", ...) of a whole length word
WordValue(c) ==
    CASE c.tag = "axes_length" -> AxesTextLen(c.rec.axes_json)
      [] c.tag = "filename_length" -> FilenameLen(c.rec.filename)
      [] OTHER -> 0

Unpacked(status, none, position, rec) ==
    [status |-> status, none |-> none, position |-> position,
     axes |-> rec.axes_json, entry |-> unpack_single_index_entry(rec).entry]

\* unpack_single_index_entry(data, position) on the bytes: struct.unpack
\* raises on a slice shorter than its format, json.loads on a text cut short
UnpackBytes(data, position) ==
    LET w1 == Slice(data, position)
        axes_length == WordValue(w1)
        axes_str == Slice(data, position + 4)
        p2 == position + axes_length + 4
        w2 == Slice(data, p2)
        filename_length == WordValue(w2)
        filename == Slice(data, p2 + 4)
        p3 == p2 + 4 + filename_length
        ints == Slice(data, p3)
        UnpackRaises(status) == Unpacked(status, FALSE, 0, NoChunk.rec)
    IN IF w1.have < 4 THEN UnpackRaises("struct.error")
       ELSE IF axes_length = 0 THEN Unpacked("ok", TRUE, position, w1.rec)
       ELSE IF axes_str.have < axes_length THEN UnpackRaises("JSONDecodeError")
       ELSE IF w2.have < 4 THEN UnpackRaises("struct.error")
       ELSE IF ints.have < 32 THEN UnpackRaises("struct.error")
       ELSE Unpacked("ok", FALSE, p3 + 32,
                     [ints.rec EXCEPT !.axes_json = axes_str.rec.axes_json,
                                      !.filename = filename.rec.filename])

\* read_ndtiff_index(data) on the bytes
RECURSIVE ReadIndexFrom(_, _, _)
ReadIndexFrom(data, position, idx) ==
    IF ~(position < ChunkStart(data, Len(data) + 1)) THEN [status |-> "ok", index |-> idx]
    ELSE LET entry == UnpackBytes(data, position)
         IN IF entry.status # "ok" THEN [status |-> entry.status, index |-> EmptyFn]
            ELSE IF entry.none THEN [status |-> "ok", index |-> idx]
            ELSE ReadIndexFrom(data, entry.position,
                               Put(idx, entry.axes, entry.entry))
ReadIndexBytes(data) == ReadIndexFrom(data, 0, EmptyFn)

\* the entries that are encoded
IndexEntries ==
    {NDTiffIndexEntry(Items(k), SIXTEEN_BIT, Off(o), 1, 2, Off(o + 4), 20,
                      "NDTiffStack.tif") :
        k \in {{<<"time", IntVal(0)>>}, {<<"time", StrVal(1)>>},
               {<<"channel", StrVal(0)>>, <<"time", IntVal(0)>>}},
        o \in {216, 516}}

\* a buffer that as_byte_buffer returns is written at the end of the stream
IndexAppend(e) ==
    /\ kind = "index"
    /\ Len(index_data) = 5 * Len(encoded)
    /\ Len(encoded) < MaxPuts
    /\ index_data' = index_data \o RecordBytes(as_byte_buffer(e))
    /\ encoded' = Append(encoded, e)
    /\ ret' = Ret("as_byte_buffer", "ok", "buffer", e.axes_key.axes, NoPix, NoMd)
    /\ UNCHANGED <<kind, baseVars, ramVars, diskVars, closed, ghostVars, byteorder, apc, res_levels, opc, seen>>

\* the stream is left with the word of zeros of a file that was never
\* terminated
IndexZeroWord ==
    /\ kind = "index"
    /\ Len(index_data) = 5 * Len(encoded)
    /\ index_data' = Append(index_data, Chunk("zero", 4, 4, NoChunk.rec))
    /\ ret' = Ret("zero_word", "ok", "None", {}, NoPix, NoMd)
    /\ UNCHANGED <<kind, baseVars, ramVars, diskVars, closed, ghostVars, byteorder, apc, res_levels, opc, seen,
                   encoded>>

\* the last record of the stream is cut short in its c-th field, h bytes
\* of which are left: none, one, or all but one
IndexCut(c, h) ==
    /\ kind = "index"
    /\ index_data # <<>> /\ Len(index_data) = 5 * Len(encoded)
    /\ LET n == Len(index_data) - 5
           last == index_data[n + c]
       IN /\ h \in {0, 1, last.len - 1} /\ h < last.len
          /\ c > 1 \/ h > 0
          /\ index_data' =
                SubSeq(index_data, 1, n + c - 1)
                \o (IF h = 0 THEN <<>> ELSE <<[last EXCEPT !.have = h]>>)
    /\ encoded' = SubSeq(encoded, 1, Len(encoded) - 1)
    /\ ret' = Ret("cut", "ok", "None", {}, NoPix, NoMd)
    /\ UNCHANGED <<kind, baseVars, ramVars, diskVars, closed, ghostVars, byteorder, apc, res_levels, opc, seen>>

\* NDTiffIndexEntry.unpack_single_index_entry(data, position) at the start of
\* the i-th record
IndexUnpack(i) ==
    /\ kind = "index"
    /\ 5 * (i - 1) + 1 <= Len(index_data)
    /\ LET u == UnpackBytes(index_data, ChunkStart(index_data, 5 * (i - 1) + 1))
       IN ret' = Ret("unpack_single_index_entry", u.status,
                     IF u.status # "ok" THEN "raise"
                     ELSE IF u.none THEN "None" ELSE "tuple",
                     u.axes, NoPix, NoMd)
    /\ UNCHANGED <<kind, baseVars, ramVars, diskVars, closed, ghostVars, auxVars>>

\* read_ndtiff_index(data)
IndexRead ==
    /\ kind = "index"
    /\ LET r == ReadIndexBytes(index_data)
       IN /\ ret' = Ret("read_ndtiff_index", r.status,
                        IF r.status = "ok" THEN "index" ELSE "raise", {}, NoPix, NoMd)
          /\ index' = IF r.status = "ok" THEN r.index ELSE index
    /\ UNCHANGED <<kind, baseVars, ramVars, closed, ghostVars, auxVars,
                   writable, readers, write_pending, current_writer, file_index,
                   files, index_file, wpc, job>>

(***************************************************************************)
(* One file, written by a SingleNDTiffWriter and read by a                 *)
(* SingleNDTiffReader, on a host of either byte order                      *)
(***************************************************************************)
MAJOR_VERSION == 3
SUMMARY_MD_HEADER == 2355492

\* np.frombuffer(..., dtype=np.uint16 / np.uint32) and
\* int.from_bytes(..., sys.byteorder) of the 2 or 4 bytes that '<' packed x
\* into: x on a little-endian host, x with its bytes in the opposite order
\* on a big-endian one
Native(x, nbytes, host) ==
    LET b0 == x % 256
        b1 == (x \div 256) % 256
        b2 == (x \div 65536) % 256
        b3 == x \div 16777216
    IN IF host = "little" THEN x
       ELSE IF nbytes = 2 THEN b0 * 256 + b1
       ELSE ((b0 * 256 + b1) * 256 + b2) * 256 + b3

\* _write_mm_header_and_summary_md on a host: the byte-order mark follows
\* sys.byteorder, every other field is packed little-endian
HeaderFile(host, summary_md) ==
    LET f == NewFile(summary_md)
    IN IF host = "big" THEN [f EXCEPT !.data[1].body.tag = "header MM"] ELSE f

\* SingleNDTiffWriter.__init__: the writer, and the summary metadata its
\* reader is given
SingleWriter(filename, summary_md) ==
    [filename |-> filename, next_ifd_offset_location |-> MinusOne,
     buffers |-> <<>>, reader_summary_md |-> summary_md]

\* _read_header on a host
ReadHeader(f, host) ==
    LET hdr == FileRead(f, Off(0), Off(HeaderBytes))
        first_ifd_offset == Native(hdr.id, 4, host)
        summary_md_length == Native(hdr.n, 4, host)
        md == FileRead(f, Off(HeaderBytes), Off(summary_md_length))
        raises(status) == [status |-> status, summary_md |-> NoMd,
                           first_ifd_offset |-> 0, major_version |-> 0]
    IN IF hdr.tag = "header MM" /\ host # "big" THEN raises("Exception")
       ELSE IF hdr.tag = "header" /\ host # "little" THEN raises("Exception")
       ELSE IF hdr.tag \notin {"header", "header MM"} THEN raises("Exception")
       ELSE IF Native(42, 2, host) # 42 THEN raises("Exception")
       ELSE IF Native(SUMMARY_MD_HEADER, 4, host) # SUMMARY_MD_HEADER
       THEN raises("Exception")
       ELSE IF md.tag # "json" THEN raises("JSONDecodeError")
       ELSE [status |-> "ok", summary_md |-> Loads(md, summary_md_length),
             first_ifd_offset |-> first_ifd_offset,
             major_version |-> Native(MAJOR_VERSION, 4, host)]

\* write_image: while self.buffers: self.file.write(self.buffers.popleft())
RECURSIVE WriteBuffers(_, _)
WriteBuffers(f, buffers) ==
    IF buffers = <<>> THEN f
    ELSE WriteBuffers(FileWrite(f, Head(buffers).len, Head(buffers).body), Tail(buffers))

SingleFileName == "test_write_single_file.tif"
SingleFileKeys == {{<<"time", IntVal(0)>>}, {<<"time", IntVal(1)>>}}

\* SingleNDTiffWriter(directory, filename, summary_md)
SingleWriterInit(summary_md) ==
    /\ kind = "file"
    /\ current_writer = NoWriter
    /\ files' = Put(files, SingleFileName, HeaderFile(byteorder, summary_md))
    /\ current_writer' = SingleWriter(SingleFileName, summary_md)
    /\ ret' = Ret("SingleNDTiffWriter", "ok", "writer", {}, NoPix, summary_md)
    /\ UNCHANGED <<kind, auxVars, baseVars, ramVars, closed, ghostVars, writable, index,
                   readers, write_pending, file_index, index_file, wpc, job>>

\* write_image(index_key, pixels, metadata)
SingleWriteImage(index_key, im) ==
    /\ kind = "file"
    /\ current_writer # NoWriter
    /\ nputs < MaxPuts
    /\ nputs' = nputs + 1
    /\ LET r == WriteIfd(files[SingleFileName], current_writer, index_key, im.pix, im.md)
       IN IF r.status = "ok"
          THEN /\ files' = Put(files, SingleFileName,
                               WriteBuffers(r.file, r.writer.buffers))
               /\ current_writer' = [r.writer EXCEPT !.buffers = <<>>]
               /\ index' = Put(index, index_key, r.entry)
               /\ ret' = Ret("write_image", "ok", "entry", index_key, im.pix, im.md)
          ELSE /\ files' = Put(files, SingleFileName, r.file)
               /\ current_writer' = r.writer
               /\ ret' = Ret("write_image", r.status, "raise", index_key, im.pix, im.md)
               /\ UNCHANGED index
    /\ UNCHANGED <<kind, auxVars, baseVars, ramVars, closed, writable, readers,
                   write_pending, file_index, index_file, wpc, job, written, appended,
                   put_failed, put_dup>>

\* finished_writing()
SingleFinishedWriting ==
    /\ kind = "file"
    /\ current_writer # NoWriter
    /\ LET fin == FinishedWriting(files[SingleFileName], current_writer)
       IN /\ files' = Put(files, SingleFileName, fin.file)
          /\ ret' = Ret("finished_writing", fin.status,
                        IF fin.status = "ok" THEN "None" ELSE "raise", {}, NoPix, NoMd)
    /\ UNCHANGED <<kind, auxVars, baseVars, ramVars, closed, ghostVars, writable, index,
                   readers, write_pending, current_writer, file_index, index_file, wpc,
                   job>>

\* SingleNDTiffReader(tiff_path), then read_image(index_entry)
SingleReaderOpen(index_key) ==
    /\ kind = "file"
    /\ current_writer # NoWriter
    /\ LET h == ReadHeader(files[SingleFileName], byteorder)
       IN IF h.status # "ok"
          THEN ret' = Ret("SingleNDTiffReader", h.status, "raise", {}, NoPix, NoMd)
          ELSE IF index_key \notin DOMAIN index
          THEN ret' = Ret("SingleNDTiffReader", "ok", "reader", {}, NoPix, h.summary_md)
          ELSE LET r == ReaderReadImage(files[SingleFileName], index[index_key])
               IN ret' = Ret("read_image", r.status,
                             IF r.status = "ok" THEN "pixels" ELSE "raise",
                             index_key, r.pix, h.summary_md)
    /\ UNCHANGED <<kind, auxVars, baseVars, ramVars, diskVars, closed, ghostVars>>

(***************************************************************************)
(* await_new_image.  The waiting thread runs beside the thread that puts   *)
(* images: Event.wait and Event.clear are two steps.                       *)
(***************************************************************************)
\* a faulty Event.clear, which leaves the event as it is (the auto-reset
\* property must tell it from Event.clear)
EventClearKept(event) == event

\* threading.Event.clear()
EventClear(event) == FALSE

\* success = self._new_image_event.wait(timeout=timeout): with the event set
\* it returns True at once; with the event not set it returns False when
\* the timeout runs out, and does not return when there is no timeout
AwaitNewImageWait(timeout) ==
    /\ kind \in {"ram", "disk", "cap"}
    /\ apc = "idle"
    /\ new_image_event \/ timeout
    /\ IF new_image_event
       THEN apc' = "clear" /\ UNCHANGED ret
       ELSE /\ ret' = Ret("await_new_image", "ok", "False", {}, NoPix, NoMd)
            /\ UNCHANGED apc
    /\ UNCHANGED <<kind, baseVars, ramVars, diskVars, closed, ghostVars, byteorder,
                   index_data, encoded, res_levels>>

\* if success: self._new_image_event.clear(); return success
AwaitNewImageClear ==
    /\ apc = "clear"
    /\ new_image_event' = EventClear(new_image_event)
    /\ apc' = "idle"
    /\ ret' = Ret("await_new_image", "ok", "True", {}, NoPix, NoMd)
    /\ UNCHANGED <<kind, axes, axes_keys, axes_types, string_axes_values, ramVars,
                   diskVars, closed, ghostVars, byteorder, index_data, encoded,
                   res_levels>>

(***************************************************************************)
(* ndtiff NDTiffDataset (ndtiff_dataset.py), the class that the package    *)
(* exports: _add_index_entry                                               *)
(***************************************************************************)
\* the attributes that the class and its instances define
NDTiffDatasetAttributes ==
    {"__init__", "__enter__", "__exit__", "get_channel_names", "has_new_image",
     "has_image", "read_image", "read_metadata", "get_index_keys", "_add_index_entry",
     "_consolidate_axes", "_parse_string_axes", "_parse_first_index", "_does_have_image",
     "_do_read_image", "_do_read_metadata", "close", "_read_one_image", "as_array",
     "index", "axes", "axes_types", "_readers_by_filename", "_lock", "path", "file_io"}

\* _add_index_entry(data): with self._lock:
\*     _, axes, index_entry = self.read_single_index_entry(data)
\*     self.index[frozenset(axes.items())] = index_entry
\* looking up an attribute that is not defined raises AttributeError
NdtiffAddIndexEntry(rec) ==
    /\ kind = "ndtiff"
    /\ nputs < MaxPuts
    /\ nputs' = nputs + 1
    /\ IF "read_single_index_entry" \in NDTiffDatasetAttributes
       THEN /\ index' = ReadSingleIndexEntry(rec, index)
            /\ ret' = Ret("_add_index_entry", "ok", "None", rec.axes_json, NoPix, NoMd)
       ELSE /\ ret' = Ret("_add_index_entry", "AttributeError", "raise", rec.axes_json,
                          NoPix, NoMd)
            /\ UNCHANGED index
    /\ UNCHANGED <<kind, auxVars, baseVars, ramVars, closed, writable, readers,
                   write_pending, current_writer, file_index, files, index_file, wpc, job,
                   written, appended, put_failed, put_dup>>

(***************************************************************************)
(* Two threads on one RAM dataset.  NDRAMDataset takes no lock, so the     *)
(* statements of put_image in one thread interleave with the calls of      *)
(* another: the observer, which loops over await_new_image() and an        *)
(* inspection of the images.                                               *)
(***************************************************************************)
\* a faulty put_image, which signals before it stores (the wake-up property
\* must tell it from the order of the statements of put_image)
PutStepsSetFirst == <<"set", "images", "image_metadata", "update_axes">>

\* the statements of put_image, in their order
PutSteps == <<"images", "image_metadata", "update_axes", "set">>

\* the coordinates the writer thread gives: one axis, of both kinds of value
ThreadCoords == {<<<<"time", IntVal(0)>>>>, <<<<"time", IntVal(1)>>>>,
                 <<<<"time", StrVal(0)>>>>}

\* put_image is called: key = frozenset(coordinates.items())
RamPutCall(coords, im) ==
    /\ kind = "ram" /\ wpc = "idle"
    /\ nputs < MaxPuts
    /\ job' = [coords |-> coords, key |-> Key(coords), im |-> im]
    /\ wpc' = PutSteps[1]
    /\ nputs' = nputs + 1
    /\ UNCHANGED <<kind, baseVars, ramVars, writable, index, readers, write_pending,
                   current_writer, file_index, files, index_file, closed, ret, written,
                   appended, put_failed, put_dup, auxVars>>

\* the next statement of the put_image in progress; after the last one the
\* call returns, and it raises when _update_axes raises
RamPutStep ==
    /\ kind = "ram" /\ wpc # "idle"
    /\ LET u == UpdateAxes(job.coords, axes, axes_keys, axes_types, string_axes_values)
           i == CHOOSE n \in DOMAIN PutSteps : PutSteps[n] = wpc
           raises == wpc = "update_axes" /\ ~u.ok
           last == i = Len(PutSteps)
       IN /\ images' = IF wpc = "images" THEN Put(images, job.key, job.im.pix) ELSE images
          /\ image_metadata' = IF wpc = "image_metadata"
                               THEN Put(image_metadata, job.key, job.im.md)
                               ELSE image_metadata
          /\ axes' = IF wpc = "update_axes" THEN u.axes ELSE axes
          /\ axes_keys' = IF wpc = "update_axes" THEN u.keys ELSE axes_keys
          /\ axes_types' = IF wpc = "update_axes" THEN u.types ELSE axes_types
          /\ string_axes_values' = IF wpc = "update_axes" THEN u.sav ELSE string_axes_values
          /\ new_image_event' = IF wpc = "set" THEN TRUE ELSE new_image_event
          /\ wpc' = IF raises \/ last THEN "idle" ELSE PutSteps[i + 1]
          /\ ret' = IF raises
                    THEN Ret("put_image", "RuntimeError", "raise", job.key, job.im.pix,
                             job.im.md)
                    ELSE IF last
                    THEN Ret("put_image", "ok", "None", job.key, job.im.pix, job.im.md)
                    ELSE ret
          /\ written' = IF last /\ ~raises THEN Put(written, job.key, job.im) ELSE written
    /\ UNCHANGED <<kind, finished_event, legacy_finished_event, writable, index, readers,
                   write_pending, current_writer, file_index, files, index_file, job,
                   closed, appended, put_failed, put_dup, nputs, auxVars>>

\* the observer calls await_new_image(timeout): the wait returns; when it
\* returns False the call returns False and the observer goes on to inspect
ObserverWait(timeout) ==
    /\ opc = "await"
    /\ AwaitNewImageWait(timeout)
    /\ opc' = IF new_image_event THEN "await" ELSE "inspect"
    /\ UNCHANGED seen

\* the observer's await_new_image clears the event and returns True
ObserverClear ==
    /\ opc = "await"
    /\ AwaitNewImageClear
    /\ opc' = "inspect"
    /\ UNCHANGED seen

\* the observer inspects the dataset: the images that it holds, and the
\* metadata of each with read_metadata, which is a KeyError for an image
\* whose metadata is not stored yet
ObserverInspect ==
    /\ kind = "ram" /\ opc = "inspect"
    /\ seen' = images
    /\ opc' = "await"
    /\ ret' = IF DOMAIN images \subseteq DOMAIN image_metadata
              THEN Ret("read_metadata", "ok", "metadata", {}, NoPix, NoMd)
              ELSE Ret("read_metadata", "KeyError", "raise", {}, NoPix, NoMd)
    /\ UNCHANGED <<kind, baseVars, ramVars, diskVars, closed, ghostVars, byteorder, apc,
                   index_data, encoded, res_levels>>

(***************************************************************************)
(* Specification                                                           *)
(***************************************************************************)
\* every field after construction
InitState ==
    /\ images = EmptyFn
    /\ image_metadata = EmptyFn
    /\ axes = EmptyFn
    /\ axes_keys = <<>>
    /\ axes_types = EmptyFn
    /\ string_axes_values = EmptyFn
    /\ new_image_event = FALSE
    /\ finished_event = FALSE
    /\ legacy_finished_event = FALSE
    /\ closed = FALSE
    /\ writable = TRUE
    /\ index = EmptyFn
    /\ readers = {}
    /\ write_pending = EmptyFn
    /\ current_writer = NoWriter
    /\ file_index = 0
    /\ files = EmptyFn
    /\ index_file = NoIndexFile
    /\ wpc = "idle"
    /\ job = NoJob
    /\ appended = <<>>
    /\ put_failed = FALSE
    /\ put_dup = FALSE
    /\ ret = Ret("init", "ok", "None", {}, NoPix, NoMd)
    /\ written = EmptyFn
    /\ nputs = 0
    /\ apc = "idle"
    /\ index_data = <<>>
    /\ encoded = <<>>
    /\ res_levels = <<>>
    /\ opc = "await"
    /\ seen = EmptyFn

\* the datasets, on a little-endian host
Init ==
    /\ kind \in {"ram", "legacy", "disk", "cap", "live"}
    /\ byteorder = "little"
    /\ InitState

Next ==
    \/ \E c \in CoordSeqs, im \in RamImages : RamPutImage(c, im)
    \/ RamFinish
    \/ RamIsFinished
    \/ \E t \in BOOLEAN : RamBlockUntilFinished(t)
    \/ RamClose
    \/ \E q \in QueryKeys : RamQuery(q)
    \/ LegacyFinish
    \/ \E t \in BOOLEAN : LegacyBlockUntilFinished(t)
    \/ LegacyIsFinished
    \/ \E c \in DiskCoordSeqs \cup {<<<<"time", IntVal(nputs)>>>>},
          im \in DiskImages \cup CapImages : PutImageBegin(c, im)
    \/ PutImageEnsureWriter
    \/ PutImageWriteIfd
    \/ PutImageWriteBuffer
    \/ PutImageInstall
    \/ PutImageCommit
    \/ DiskFinish
    \/ DiskClose
    \/ DiskOpen
    \/ \E q \in DiskQueryKeys : DiskQuery(q)
    \/ AsArrayCall
    \/ \E n \in LiveFileNames : ExternalCreateFile(n)
    \/ \E n \in LiveFileNames : ExternalWriteHeader(n)
    \/ \E r \in LiveRecords : ExternalAppendRecord(r)
    \/ \E r \in LiveRecords : LiveAddIndexEntry(r)
    \/ LiveOpenFromDisk
    \/ \E k \in LiveKeys : LiveReadImage(k)

Spec == Init /\ [][Next]_vars

\* a stream of index records that is encoded, cut and decoded
InitIndex ==
    /\ kind = "index"
    /\ byteorder = "little"
    /\ InitState
NextIndex ==
    \/ \E e \in IndexEntries : IndexAppend(e)
    \/ IndexZeroWord
    \/ \E c \in 1..5, h \in 0..31 : IndexCut(c, h)
    \/ \E i \in 1..MaxPuts : IndexUnpack(i)
    \/ IndexRead
SpecIndex == InitIndex /\ [][NextIndex]_vars

\* one file, its writer and its reader, on a host of either byte order
InitFile ==
    /\ kind = "file"
    /\ byteorder \in {"little", "big"}
    /\ InitState
NextFile ==
    \/ \E md \in {SummaryMd, Md(0, 0, 2)} : SingleWriterInit(md)
    \/ \E k \in SingleFileKeys, im \in DiskImages : SingleWriteImage(k, im)
    \/ SingleFinishedWriting
    \/ \E k \in SingleFileKeys : SingleReaderOpen(k)
SpecFile == InitFile /\ [][NextFile]_vars

\* a RAM dataset with one thread that puts images and one that awaits them
InitAwait ==
    /\ kind = "ram"
    /\ byteorder = "little"
    /\ InitState
NextAwait ==
    \/ \E c \in CoordSeqs, im \in RamImages : RamPutImage(c, im)
    \/ \E t \in BOOLEAN : AwaitNewImageWait(t) /\ UNCHANGED <<opc, seen>>
    \/ AwaitNewImageClear /\ UNCHANGED <<opc, seen>>
SpecAwait == InitAwait /\ [][NextAwait]_vars

\* a dataset of tiles that is filled and read as one stitched array
InitStitch ==
    /\ kind = "tiles"
    /\ byteorder = "little"
    /\ InitState
NextStitch ==
    \/ \E c \in TileCoords, im \in TileImages : RamPutImage(c, im)
    \/ \E ov \in Overlaps, fr \in BOOLEAN : AsArrayStitchedCall(ov, fr)
SpecStitch == InitStitch /\ [][NextStitch]_vars

\* a RAM dataset with a writer thread and an observer thread
InitThreads ==
    /\ kind = "ram"
    /\ byteorder = "little"
    /\ InitState
NextThreads ==
    \/ \E c \in ThreadCoords, im \in RamImages : RamPutCall(c, im)
    \/ RamPutStep
    \/ \E t \in BOOLEAN : ObserverWait(t)
    \/ ObserverClear
    \/ ObserverInspect
SpecThreads == InitThreads /\ [][NextThreads]_vars

\* datasets that are given two images or two index records of one key
InitRepeat ==
    /\ kind \in {"ram", "live", "ndtiff"}
    /\ byteorder = "little"
    /\ InitState
NextRepeat ==
    \/ \E c \in ThreadCoords, im \in RamImages : RamPutImage(c, im)
    \/ \E n \in LiveFileNames : ExternalCreateFile(n)
    \/ \E n \in LiveFileNames : ExternalWriteHeader(n)
    \/ \E r \in LiveRecords : ExternalAppendRecord(r)
    \/ \E r \in LiveRecords : LiveAddIndexEntry(r)
    \/ LiveOpenFromDisk
    \/ \E r \in LiveRecords : NdtiffAddIndexEntry(r)
SpecRepeat == InitRepeat /\ [][NextRepeat]_vars

\* a pyramid that is opened from disk, asked for its keys and closed
InitPyramid ==
    /\ kind = "pyramid"
    /\ byteorder = "little"
    /\ InitState
NextPyramid ==
    \/ \E dirs \in PyramidDirs : PyramidOpen(dirs)
    \/ \E l \in 0..2 : PyramidGetIndexKeys(l)
    \/ PyramidClose
SpecPyramid == InitPyramid /\ [][NextPyramid]_vars

(***************************************************************************)
(* Properties                                                              *)
(***************************************************************************)
HasImage(q) == IF kind = "ram" THEN RamHasImage(q) ELSE DiskHasImage(q)
ReadImage(q) == IF kind = "ram" THEN RamReadImage(q) ELSE DiskReadImage(q)
ReadMetadata(q) == IF kind = "ram" THEN RamReadMetadata(q) ELSE DiskReadMetadata(q)
Writable == kind \in {"ram", "disk", "cap"}
\* what read_image and read_metadata return for a key put earlier
ReadsBack(k, im) ==
    /\ HasImage(k).val = "True"
    /\ ReadImage(k).status = "ok" /\ ReadImage(k).pix = im.pix
    /\ ReadMetadata(k).status = "ok" /\ ReadMetadata(k).md = im.md

\* C1: a dataset opened again from the directory, after put_image calls with
\* pairwise distinct coordinates that all returned and after finish, reads
\* back the pixels and the metadata of every image put, and holds no other.
C1_RoundTrip ==
    (kind = "disk" /\ ~writable /\ ~closed /\ finished_event /\ ~put_failed /\ ~put_dup)
        => /\ \A k \in DOMAIN written : ReadsBack(k, written[k])
           /\ DOMAIN index = DOMAIN written
           /\ write_pending = EmptyFn
C1_Witness ==
    /\ kind = "disk" /\ ~writable /\ ~closed /\ finished_event
    /\ ~put_failed /\ ~put_dup
    /\ Cardinality(DOMAIN written) = 2
    /\ ret.op = "read_metadata" /\ ret.status = "ok"

C3_InFlightVisible ==
    (kind = "disk" /\ wpc # "idle")
        => /\ job.key \in DOMAIN write_pending \cup DOMAIN index
           /\ HasImage(job.key).val = "True"
           /\ ReadImage(job.key).pix = job.im.pix
C3_HasImageStays ==
    \A q \in DiskQueryKeys :
        (kind = "disk" /\ writable /\ ~closed /\ ~closed' /\ DiskHasImage(q).val = "True")
            => DiskHasImage(q)'.val = "True"
StoredImages ==
    IF kind = "ram" THEN <<images, image_metadata>> ELSE <<write_pending, index>>
C4_NoWritesAfterFinish ==
    [][(Writable /\ finished_event /\ ~closed') => StoredImages' = StoredImages]_vars

\* C5: whenever finished is set, write_pending is empty.
C5_FinishedNoPending ==
    (kind \in {"disk", "cap"} /\ finished_event) => write_pending = EmptyFn

\* C6: is_finished and block_until_finished return whether finish has been
\* called: false before it (at the timeout), true in every state after it.
FinishedFlag == IF kind = "legacy" THEN legacy_finished_event ELSE finished_event
C6_FinishedLatch ==
    ret.op \in {"is_finished", "block_until_finished", "block_until_finished(timeout)",
                "legacy.is_finished", "legacy.block_until_finished",
                "legacy.block_until_finished(timeout)"}
        => ret.val = IF FinishedFlag THEN "True" ELSE "False"

\* C7: at every step, each record of NDTiff.index names a file in which the
\* IFD, the pixels and the metadata of its image are completely written, and
\* the records are in the order in which the writer appended them.
IfdWritten(f, e) ==
    \E i \in DOMAIN f.data :
        /\ f.data[i].body.tag = "ifd"
        /\ OffAdd(f.data[i].off, f.data[i].len) = e.pix_offset
        /\ OffLe(e.pix_offset, f.length)
RecordBacked(rec, im) ==
    LET e == unpack_single_index_entry(rec).entry
    IN /\ rec.filename \in DOMAIN files
       /\ IfdWritten(files[rec.filename], e)
       /\ ReaderReadImage(files[rec.filename], e).pix = im.pix
       /\ ReaderReadMetadata(files[rec.filename], e).md = im.md
AlignedPos(f) == IF OffOdd(f.pos) THEN OffPlus(f.pos, 1) ELSE f.pos
C8_FileSizeCap ==
    /\ \A n \in DOMAIN files : OffLt(files[n].pos, MAX_FILE_SIZE)
    /\ (kind \in {"disk", "cap"} /\ wpc = "write_ifd" /\ job.space = "True")
          => OffLt(IfdLayout(AlignedPos(files[current_writer.filename]),
                             BytesPerImagePixels(job.im.pix).n, job.im.md.nbytes).end,
                   MAX_FILE_SIZE)

\* C9: every entry of index has a reader registered under its file name, also
\* after an add_index_entry that failed while opening the file; read_image of
\* an indexed key never fails for lack of a reader.
C9_ReaderPool ==
    (kind \in {"live", "disk", "cap"})
        => /\ \A k \in DOMAIN index : index[k].filename \in readers
           /\ (kind = "live" /\ ret.op = "read_image") => ret.status # "KeyError"

\* C10: a query whose coordinates name no stored image has the defined
\* outcome: has_image returns false, read_image and read_metadata fail with
\* the image-not-found error; also for an axis never seen and for an empty
\* dataset.
NotFound(r) == r.val = "raise" /\ r.status \in {"ImageNotFound", "Exception"}
Absent(q) ==
    LET c == ConsolidateAxes(q, axes_types, string_axes_values)
    IN \/ c.status # "ok"
       \/ c.key \notin (IF kind = "ram" THEN DOMAIN images
                        ELSE DOMAIN write_pending \cup DOMAIN index)
C10_AbsentQueries ==
    kind = "ram"
        => \A q \in QueryKeys :
              Absent(q) => /\ HasImage(q).status = "ok" /\ HasImage(q).val = "False"
                           /\ NotFound(ReadImage(q))
                           /\ NotFound(ReadMetadata(q))

\* the put_image call a step makes, and the coordinates it was given
PutCalled == Writable /\ nputs' = nputs + 1
PutCallKey == IF wpc' = "writer" THEN job'.key ELSE ret'.key
PutCallFailed == ret'.op = "put_image" /\ ret'.val = "raise" /\ wpc' = "idle"

\* C11: in a writable dataset the kind of an axis is fixed at its first use.
\* Every image whose put_image returned has, on each of its axes, a value of
\* the kind axes_types gives the axis; an axis gets its kind from a value of
\* the put_image call that first names it; the kind never changes afterwards;
\* and a put_image that gives an axis a value of the other kind raises.
C11_StoredKinds ==
    (Writable /\ ~closed) =>
        \A k \in DOMAIN written : \A p \in k :
            p[1] \in DOMAIN axes_types /\ axes_types[p[1]] = p[2].kind
C11_KindStep ==
    (Writable /\ ~closed) =>
        /\ \A a \in DOMAIN axes_types :
               a \in DOMAIN axes_types' /\ axes_types'[a] = axes_types[a]
        /\ \A a \in DOMAIN axes_types' \ DOMAIN axes_types :
               PutCalled /\ \E p \in PutCallKey : p[1] = a /\ p[2].kind = axes_types'[a]
        /\ PutCalled =>
               \A p \in PutCallKey :
                   (p[1] \in DOMAIN axes_types /\ axes_types[p[1]] # p[2].kind)
                       => PutCallFailed /\ ret'.status = "RuntimeError"
C11_AxisKindFixed == [](C11_StoredKinds) /\ [][C11_KindStep]_vars
C11_Witness ==
    /\ Writable /\ ~closed
    /\ written # EmptyFn
    /\ ret.op = "put_image" /\ ret.status = "RuntimeError"
    /\ \E p \in ret.key : p[1] \in DOMAIN axes_types /\ axes_types[p[1]] # p[2].kind

\* the position (from 0) of a string in the list of its axis
StringIndex(a, v) == (CHOOSE i \in DOMAIN string_axes_values[a] :
                         string_axes_values[a][i] = v) - 1
\* the coordinates of a stored image, each string replaced by its position
IndexQuery(k) ==
    {IF p[2].kind = "str" THEN <<p[1], IntVal(StringIndex(p[1], p[2]))>> ELSE p : p \in k}

\* C12: on a string axis an integer i denotes the i-th distinct string in
\* first-seen order.  Every string of a stored image is once in the list of
\* its axis; a query that gives the position instead of the string reads the
\* same image and metadata; and a step never moves a string already listed
\* (new strings go to the end, so the first string seen stays index 0).
C12_IndexReads ==
    (Writable /\ ~closed) =>
        /\ \A a \in DOMAIN string_axes_values :
               \A i, j \in DOMAIN string_axes_values[a] :
                   string_axes_values[a][i] = string_axes_values[a][j] => i = j
        /\ \A k \in DOMAIN written :
               /\ \A p \in k : p[2].kind = "str" =>
                      /\ p[1] \in DOMAIN string_axes_values
                      /\ InSeq(p[2], string_axes_values[p[1]])
               /\ ReadImage(IndexQuery(k)).status = "ok"
               /\ ReadImage(IndexQuery(k)).pix = written[k].pix
               /\ ReadMetadata(IndexQuery(k)).status = "ok"
               /\ ReadMetadata(IndexQuery(k)).md = written[k].md
               /\ HasImage(IndexQuery(k)).val = "True"
C12_IndexStays ==
    (Writable /\ ~closed) =>
        \A a \in DOMAIN string_axes_values :
            /\ a \in DOMAIN string_axes_values'
            /\ Len(string_axes_values'[a]) >= Len(string_axes_values[a])
            /\ \A i \in DOMAIN string_axes_values[a] :
                   string_axes_values'[a][i] = string_axes_values[a][i]
C12_StringIndex == [](C12_IndexReads) /\ [][C12_IndexStays]_vars
\* two images with different strings on one axis, the later string the
\* smaller one, and a read by position has returned
C12_Witness ==
    /\ Writable /\ ~closed
    /\ \E a \in DOMAIN string_axes_values :
           /\ Len(string_axes_values[a]) = 2
           /\ string_axes_values[a][2].n < string_axes_values[a][1].n
           /\ \E k1, k2 \in DOMAIN written :
                  /\ <<a, string_axes_values[a][1]>> \in k1
                  /\ <<a, string_axes_values[a][2]>> \in k2
    /\ ret.op = "read_image" /\ ret.status = "ok"
    /\ \E p \in ret.key : p[1] = "channel" /\ p[2].kind = "int"

\* the kinds of dataset that keep axes
IsDataset == kind \in {"ram", "disk", "cap", "live"}

\* C13: in every state of an open dataset the axis names of axes are in
\* canonical order: by descending precedence (row 7, column 6, position 5,
\* time 4, channel 3, z 2, any other name 3).
C13_CanonicalOrder ==
    (IsDataset /\ ~closed) =>
        \A i, j \in DOMAIN axes_keys :
            i < j => AxisOrderKey(axes_keys[i]) >= AxisOrderKey(axes_keys[j])

\* the keys of the images a dataset holds
HeldKeys ==
    IF kind = "ram" THEN DOMAIN images ELSE DOMAIN write_pending \cup DOMAIN index
\* every value of axes was given on that axis by an image the dataset holds, and
\* every value of an image whose put_image returned is in axes
AxesHoldObserved ==
    /\ \A a \in DOMAIN axes : \A i \in DOMAIN axes[a] :
           \E k \in HeldKeys : <<a, axes[a][i]>> \in k
    /\ \A k \in DOMAIN written : \A p \in k :
           p[1] \in DOMAIN axes /\ InSeq(p[2], axes[p[1]])
Ascending(s) == \A i, j \in DOMAIN s : i < j => s[i].kind = s[j].kind /\ s[i].n < s[j].n

\* C14 as stated: axes[a] holds each observed value once, ascending on an
\* integer axis and in the order of first insertion on a string axis.
C14_InsertionOrderForStrings ==
    (IsDataset /\ ~closed) =>
        /\ AxesHoldObserved
        /\ \A a \in DOMAIN axes :
               IF axes_types[a] = "int" THEN Ascending(axes[a])
               ELSE a \in DOMAIN string_axes_values /\ axes[a] = string_axes_values[a]

\* C14, amended: axes[a] holds each observed value once, in ascending order
\* on every axis: by value on an integer axis, lexicographic on a string axis.
C14_ValueOrder ==
    (IsDataset /\ ~closed) =>
        /\ AxesHoldObserved
        /\ \A a \in DOMAIN axes : Ascending(axes[a])
\* strings were first seen in an order that is not the lexicographic one, and
\* the values of an integer axis were seen in descending order
C14_Witness ==
    /\ IsDataset /\ ~closed
    /\ \/ \E a \in DOMAIN string_axes_values :
              /\ Len(string_axes_values[a]) = 2
              /\ string_axes_values[a][2].n < string_axes_values[a][1].n
              /\ a \in DOMAIN axes /\ Len(axes[a]) = 2
              /\ Cardinality(DOMAIN written) = 2
       \/ /\ kind = "disk" /\ Len(appended) = 2
          /\ appended[1].key = {<<"time", IntVal(1)>>}
          /\ appended[2].key = {<<"time", IntVal(0)>>}

\* the values that the images held give an axis, and the rank (from 1) of a
\* value among those of its kind: ints by value, strs lexicographically
ValuesOn(a) == {p[2] : p \in {x \in UNION HeldKeys : x[1] = a}}
Rank(a, v) == Cardinality({u \in ValuesOn(a) : u.kind = v.kind /\ u.n < v.n}) + 1
NamesOf(k) == {p[1] : p \in k}
ValueOf(k, a) == (CHOOSE p \in k : p[1] = a)[2]

\* C15: in the array of the default as_array(), along every stacked axis,
\* block i holds the image whose coordinate is the i-th value in ascending
\* order (ints by value, strs lexicographically), whatever the order in which
\* the images were acquired; a block with no image is the empty tile.
C15_StackingOrder ==
    (OnDisk /\ ~closed /\ ImagePropertiesKnown) =>
        /\ AsArray.status = "ok"
        /\ \A k \in DOMAIN written :
               NamesOf(k) = DOMAIN axes =>
                   LET b == [a \in DOMAIN axes |-> Rank(a, ValueOf(k, a))]
                   IN b \in DOMAIN AsArray.blocks /\ AsArray.blocks[b] = written[k].pix
        /\ \A b \in DOMAIN AsArray.blocks :
               {<<a, axes[a][b[a]]>> : a \in DOMAIN axes} \notin HeldKeys
                   => AsArray.blocks[b] = EmptyTile
\* two images acquired with the greater coordinate first, and as_array called
C15_Witness ==
    /\ kind = "disk" /\ ~closed
    /\ Len(appended) = 2
    /\ appended[1].key # appended[2].key
    /\ ValueOf(appended[2].key, "time").n < ValueOf(appended[1].key, "time").n
    /\ appended[1].im.pix # appended[2].im.pix
    /\ DOMAIN written = {appended[1].key, appended[2].key}
    /\ ret.op = "as_array" /\ ret.status = "ok" /\ ret.pix = appended[2].im.pix

(***************************************************************************)
(* C16: decoding the bytes that encode an entry gives an entry equal to it *)
(* in every field, the axes key and the pixel offset among them, and       *)
(* leaves the read position at the end of the record.                      *)
(***************************************************************************)
RecordStart(i) == ChunkStart(index_data, 5 * (i - 1) + 1)
C16_RecordRoundTrip ==
    kind = "index" =>
        \A i \in 1..Len(encoded) :
            LET u == UnpackBytes(index_data, RecordStart(i))
            IN /\ u.status = "ok" /\ ~u.none
               /\ u.entry = encoded[i]
               /\ u.position = RecordStart(i + 1)

(***************************************************************************)
(* C17: on k whole records followed by a word of zeros or by a record cut  *)
(* short at any byte, read_ndtiff_index does not fail and returns the      *)
(* mapping of the k whole records, a later record of a key replacing an    *)
(* earlier one.                                                            *)
(***************************************************************************)
WholeRecords == [i \in 1..Len(encoded) |-> as_byte_buffer(encoded[i])]
C17_DefensiveParsing ==
    kind = "index" =>
        LET r == ReadIndexBytes(index_data)
        IN r.status = "ok" /\ r.index = read_ndtiff_index(WholeRecords)


(***************************************************************************)
(* C18: finished_writing on a file in which n >= 0 images were written     *)
(* completes without error; then every IFD starts on an even offset, the   *)
(* next-IFD offset of each IFD but the last is the offset at which the     *)
(* following IFD begins, that of the last IFD is 0, and the file ends at   *)
(* the write position after the last record.  (A call on a file that is    *)
(* closed already raises ValueError and is not the case in question.)      *)
(***************************************************************************)
Ifds(f) == SelectSeq(f.data, LAMBDA e : e.body.tag = "ifd")
NextIfdOffset(f, e) ==
    IF \E i \in DOMAIN f.data :
          /\ f.data[i].body.tag = "null offset"
          /\ f.data[i].off = OffPlus(e.off, 2 + 13 * 12)
    THEN Off(0) ELSE e.body.id
IfdChain(f) ==
    LET ifds == Ifds(f)
    IN /\ \A i \in DOMAIN ifds :
             /\ ~OffOdd(ifds[i].off)
             /\ NextIfdOffset(f, ifds[i]) =
                    IF i < Len(ifds) THEN ifds[i + 1].off ELSE Off(0)
       /\ f.length = f.pos
       /\ \A i \in DOMAIN f.data : OffLe(OffAdd(f.data[i].off, f.data[i].len), f.length)
C18_IfdChain ==
    (kind = "file" /\ ret.op = "finished_writing" /\ ret.status # "ValueError") =>
        ret.status = "ok" /\ IfdChain(files[SingleFileName])

(***************************************************************************)
(* C19: on a host of either byte order, the header and the summary         *)
(* metadata of a file the writer has closed pass the reader's validation   *)
(* on that host, and the reader returns major version 3 and the summary    *)
(* metadata that was written.                                              *)
(***************************************************************************)
C19_HeaderRoundTrip ==
    (kind = "file" /\ current_writer # NoWriter /\ files[SingleFileName].closed) =>
        LET h == ReadHeader(files[SingleFileName], byteorder)
        IN /\ h.status = "ok"
           /\ h.major_version = MAJOR_VERSION
           /\ h.summary_md = current_writer.reader_summary_md

(***************************************************************************)
(* C20: await_new_image is auto-reset.  A call returns true only when      *)
(* new_image was signalled, and has cleared the signal when it returns     *)
(* true; it returns false only when no signal is there; and only put_image *)
(* raises the signal.  Hence after a true return, with no put_image in     *)
(* between, the next call returns false, and any number of images          *)
(* signalled before one call give a single true return.                    *)
(***************************************************************************)
AwaitReturns(val) ==
    ret' # ret /\ ret'.op = "await_new_image" /\ ret'.val = val
C20_AwaitStep ==
    /\ (apc = "idle" /\ apc' = "clear") => new_image_event
    /\ AwaitReturns("True") <=> (apc = "clear" /\ apc' = "idle" /\ ret' # ret)
    /\ AwaitReturns("True") => ~new_image_event'
    /\ AwaitReturns("False") => (~new_image_event /\ ~new_image_event' /\ apc = "idle")
    /\ (~new_image_event /\ new_image_event') => PutCalled
C20_AutoReset == [][C20_AwaitStep]_vars
C20_Witness ==
    /\ ret.op = "await_new_image" /\ ret.val = "True"
    /\ ~new_image_event
    /\ nputs >= 2


(***************************************************************************)
(* The stitched array                                                      *)
(***************************************************************************)
\* the rows and the columns at which the dataset holds a tile
TileRows == {ValueOf(k, "row").n : k \in DOMAIN images}
TileColumns == {ValueOf(k, "column").n : k \in DOMAIN images}
MinOf(S) == CHOOSE x \in S : \A y \in S : x <= y
MaxOf(S) == CHOOSE x \in S : \A y \in S : y <= x
TileKey(r, c) == {<<"row", IntVal(r)>>, <<"column", IntVal(c)>>}
\* the overlaps that are set, as (y, x)
SetOverlaps == Overlaps \ {<<>>}
HoldsTiles == kind = "tiles" /\ images # EmptyFn
StitchedReturned == kind = "tiles" /\ ret.op = "as_array(stitched)"

\* C21: the stitched array of a dataset of tiles is never an error because a
\* tile is missing: it has one cell for every row and column between the
\* least and the greatest (negative ones too), the cell (r - min_row,
\* c - min_column) shows the tile stored at (r, c), and a cell with no
\* stored tile is all zeros
C21_StitchedGrid ==
    HoldsTiles =>
        \A ov \in SetOverlaps, fr \in BOOLEAN :
            LET arr == AsArrayStitched(ov, fr)
            IN /\ arr.status = "ok"
               /\ Len(arr.blocks) = MaxOf(TileRows) - MinOf(TileRows) + 1
               /\ \A r \in MinOf(TileRows)..MaxOf(TileRows) :
                    /\ Len(arr.blocks[r - MinOf(TileRows) + 1])
                           = MaxOf(TileColumns) - MinOf(TileColumns) + 1
                    /\ \A c \in MinOf(TileColumns)..MaxOf(TileColumns) :
                         LET cell == arr.blocks[r - MinOf(TileRows) + 1]
                                               [c - MinOf(TileColumns) + 1]
                         IN IF TileKey(r, c) \in DOMAIN images
                            THEN cell.val = images[TileKey(r, c)].val
                            ELSE cell.val = 0

\* C22: at full resolution and with an overlap (oy, ox) of two positive
\* numbers, every stored tile of H rows and W columns gives the stitched
\* array its rows floor(oy/2) up to H - ceil(oy/2) and its columns
\* floor(ox/2) up to W - ceil(ox/2): (H - oy) rows of (W - ox) columns
C22_OverlapRemoval ==
    HoldsTiles =>
        \A ov \in SetOverlaps :
            ov[1] > 0 /\ ov[2] > 0 =>
                LET arr == AsArrayStitched(ov, TRUE)
                IN \A r \in TileRows, c \in TileColumns :
                     TileKey(r, c) \in DOMAIN images =>
                        LET cell == arr.blocks[r - MinOf(TileRows) + 1]
                                              [c - MinOf(TileColumns) + 1]
                            im == images[TileKey(r, c)]
                        IN /\ cell.val = im.val
                           /\ cell.top = ov[1] \div 2
                           /\ cell.top + cell.h = im.h - (ov[1] + 1) \div 2
                           /\ cell.left = ov[2] \div 2
                           /\ cell.left + cell.w = im.w - (ov[2] + 1) \div 2
                           /\ cell.h = im.h - ov[1]
                           /\ cell.w = im.w - ov[2]
\* a stitched array was returned for an odd overlap in both directions
C22_Witness ==
    /\ StitchedReturned /\ ret.status = "ok" /\ images # EmptyFn
    /\ ret.key = {<<"overlap", IntVal(3)>>, <<"full_resolution", IntVal(1)>>}

\* C30: at full resolution and for every overlap 0 <= oy < H, 0 <= ox < W,
\* one of them zero or not, every stored tile has after the crop the shape
\* (H - oy) x (W - ox) of the empty tile, and the stitched block has the
\* declared chunk shape, (H - oy) times the rows by (W - ox) times the columns
C30_BlockShape ==
    HoldsTiles =>
        \A ov \in SetOverlaps :
            ov[1] < ImageShape.h /\ ov[2] < ImageShape.w =>
                LET arr == AsArrayStitched(ov, TRUE)
                    nrows == MaxOf(TileRows) - MinOf(TileRows) + 1
                    ncols == MaxOf(TileColumns) - MinOf(TileColumns) + 1
                IN /\ \A r \in TileRows, c \in TileColumns :
                        TileKey(r, c) \in DOMAIN images =>
                           LET cell == arr.blocks[r - MinOf(TileRows) + 1]
                                                 [c - MinOf(TileColumns) + 1]
                           IN /\ cell.h = ImageShape.h - ov[1]
                              /\ cell.w = ImageShape.w - ov[2]
                   /\ arr.status = "ok"
                   /\ <<arr.h, arr.w>> = arr.chunks
                   /\ arr.chunks = <<(ImageShape.h - ov[1]) * nrows,
                                     (ImageShape.w - ov[2]) * ncols>>

(***************************************************************************)
(* close() of the RAM dataset                                              *)
(***************************************************************************)
\* C23: when close() of a RAM dataset has returned, images, image_metadata,
\* axes, axes_types and the lists of string values are all empty and
\* has_image is false for every coordinates, as in a dataset just made
C23_CloseDropsState ==
    kind = "ram" /\ ret.op = "close" =>
        /\ images = EmptyFn
        /\ image_metadata = EmptyFn
        /\ axes = EmptyFn
        /\ axes_types = EmptyFn
        /\ string_axes_values = EmptyFn
        /\ \A k \in AllKeys : k \notin DOMAIN images

(***************************************************************************)
(* close() of the pyramid                                                  *)
(***************************************************************************)
\* C24: close() of a pyramid, of however many levels, returns without an
\* error, and after it no reader of any level is open
C24_PyramidClose ==
    kind = "pyramid" /\ ret.op = "close" =>
        /\ ret.status = "ok"
        /\ \A i \in DOMAIN res_levels : res_levels[i][2].readers = {}

(***************************************************************************)
(* Threads                                                                 *)
(***************************************************************************)
\* C25: a method that reads the images, the axes or their tables runs only
\* while no other thread is inside a method that modifies them: the
\* observer's inspection is never a step taken while a put_image is in
\* progress
C25_ReadStep == opc = "inspect" /\ opc' = "await" => wpc = "idle"
C25_MutexDiscipline == [][C25_ReadStep]_vars

\* C26: with one writer and one observer that loops over await_new_image()
\* and an inspection, every image whose put_image has returned is held and
\* visible, and either the observer's last inspection found it, or the
\* signal is still set (so a later await returns true), or an inspection is
\* still to follow the await that consumed the signal
C26_NoLostWakeup ==
    kind = "ram" =>
        \A k \in DOMAIN written :
            /\ k \in DOMAIN images
            /\ \/ k \in DOMAIN seen /\ seen[k] \in {written[k].pix, images[k]}
               \/ new_image_event
               \/ apc = "clear"
               \/ opc = "inspect"
\* the observer's inspection after a true await found the image of a
\* put_image that returned, and a second image came after the clear
C26_Witness ==
    /\ kind = "ram" /\ opc = "await" /\ apc = "idle"
    /\ new_image_event
    /\ Cardinality(DOMAIN written) = 2
    /\ \E k \in DOMAIN written : k \in DOMAIN seen /\ seen[k] = written[k].pix
    /\ \E k \in DOMAIN written : k \notin DOMAIN seen

(***************************************************************************)
(* A repeated key                                                          *)
(***************************************************************************)
\* a put_image of the RAM dataset that returns, on coordinates that already
\* have an image: the one image of the key is the new one, with its metadata
RepeatedPut ==
    \A c \in ThreadCoords, im \in RamImages :
        RamPutImage(c, im) /\ ret'.status = "ok" /\ Key(c) \in DOMAIN images =>
            /\ DOMAIN images' = DOMAIN images
            /\ images'[Key(c)] = im.pix
            /\ image_metadata'[Key(c)] = im.md
\* a dataset opened from an index stream: the entry of a key is that of the
\* last record of the key
RepeatedRecord ==
    LiveOpenFromDisk /\ ret'.status = "ok" =>
        \A i \in DOMAIN index_file.records :
            (\A j \in DOMAIN index_file.records :
                j > i => index_file.records[j].axes_json # index_file.records[i].axes_json)
            => /\ index_file.records[i].axes_json \in DOMAIN index'
               /\ index'[index_file.records[i].axes_json]
                      = LegacyEntry(index_file.records[i])
               /\ read_ndtiff_index(index_file.records)[index_file.records[i].axes_json]
                      = unpack_single_index_entry(index_file.records[i]).entry
\* _add_index_entry called again with the key of the call before it: the
\* entry of the key is that of the second call
RepeatedEntry ==
    \A rec \in LiveRecords :
        /\ LiveAddIndexEntry(rec) \/ NdtiffAddIndexEntry(rec)
        /\ ret.op = "_add_index_entry" /\ ret.key = rec.axes_json
        => /\ rec.axes_json \in DOMAIN index'
           /\ index'[rec.axes_json] = LegacyEntry(rec)

\* C27: the last write of a key wins: a second put_image on the same
\* coordinates leaves one image for them, the second one with its metadata;
\* a dataset opened from an index stream with two records of one key uses
\* the later record; a second add_index_entry of a key replaces the entry
C27_LastWriteWins == [][RepeatedPut /\ RepeatedRecord /\ RepeatedEntry]_vars

(***************************************************************************)
(* A rejected put_image                                                    *)
(***************************************************************************)
\* C28: a put_image of the RAM dataset that raises, because a coordinate is
\* of the other kind than its axis, leaves the images, the metadata, the
\* axes, their types and the lists of string values as they were, does not
\* signal new_image, and has_image of its coordinates is false after it
C28_RejectedStep ==
    kind = "ram" /\ nputs' = nputs + 1 /\ ret'.op = "put_image" /\ ret'.status # "ok" =>
        /\ UNCHANGED <<images, image_metadata, axes, axes_types, string_axes_values,
                       new_image_event>>
        /\ ret'.key \notin DOMAIN images'
C28_RejectedPutUnchanged == [][C28_RejectedStep]_vars

(***************************************************************************)
(* Integer positions on a string axis                                      *)
(***************************************************************************)
\* the query of block b with the integer position of the block on axis a
\* in place of the string
PositionQuery(b, a) ==
    {<<x, IF x = a THEN IntVal(b[a] - 1) ELSE axes[x][b[x]]>> : x \in DOMAIN axes}

\* C29: on a string axis a, the block at position i of the array is the image
\* that read_image returns for a=i and the block's other coordinates,
\* whatever the order in which the strings were first stored
C29_SamePosition ==
    kind \in {"ram", "disk", "cap"} /\ ~closed /\ wpc = "idle" =>
        \A a \in DOMAIN axes :
            axes_types[a] = "str" =>
                \A b \in BlockIds :
                    LET block == ReadOneImageForLargeArray(b)
                        image == ReadImage(PositionQuery(b, a))
                    IN block.val = "image" =>
                          image.status = "ok" /\ image.pix = block.pix

==============================================================================
